---- MODULE Spec2Model ----
(***************************************************************************)
(* Model of the static N+1 detector (graphql-resolver/src/n1/detector.rs), *)
(* the configuration model (config/schema.rs), the schema parser's         *)
(* document-to-configuration step (config/parser.rs), the resolver         *)
(* registry (registry/storage.rs) and the server builder (server.rs).      *)
(*                                                                         *)
(* Option<T> values are sequences of length at most one: <<>> is None and  *)
(* <<v>> is Some(v).  A map is a function whose DOMAIN is its key set.     *)
(***************************************************************************)
EXTENDS Integers, Sequences, FiniteSets, TLC

VARIABLES
    config,      \* detector: the GraphQLConfig under analysis
    registry,    \* detector: the TraitRegistry under analysis
    pc,          \* detector: position of detect()
    stack,       \* detector: call stack of traverse() frames
    visited,     \* detector: the FxHashSet<String> threaded through traverse()
    errors,      \* detector: self.errors
    result,      \* detector: Option of the value returned by detect()
    builder,     \* server: the GraphQLServerBuilder, as last held by the caller
    validated,   \* server: Option of the ValidatedServerBuilder obtained
    server,      \* server: Option of the GraphQLServer obtained
    outcome,     \* server: Option of what the last validate()/build() did
    history,     \* server: which builder methods have been called so far
    requests     \* server: the calls made on the GraphQLServer, in flight or done

vars == <<config, registry, pc, stack, visited, errors, result,
          builder, validated, server, outcome, history, requests>>

detectorVars == <<config, registry, pc, stack, visited, errors, result>>
serverVars == <<builder, validated, server, outcome, history, requests>>

----------------------------------------------------------------------------
(* Bounds of the explored universe.                                        *)

MaxFields == 3
MaxDepth == 6
MaxSdlParts == 2
MaxRegistrations == 2
MaxRequests == 2

----------------------------------------------------------------------------
(* Configuration model: config/schema.rs                                   *)

Named(n) == [kind |-> "Named", name |-> n]
List(t) == [kind |-> "List", inner |-> t]
NonNull(t) == [kind |-> "NonNull", inner |-> t]

RECURSIVE inner_type_name(_)
inner_type_name(ft) ==
    IF ft.kind = "Named" THEN <<ft.name>> ELSE inner_type_name(ft.inner)

is_list_mut(ft) ==
    IF ft.kind = "List" THEN TRUE
    ELSE FALSE

RECURSIVE is_list(_)
is_list(ft) ==
    IF ft.kind = "List" THEN TRUE
    ELSE IF ft.kind = "NonNull" THEN is_list(ft.inner)
    ELSE FALSE

TraitResolver(n, bk) == [kind |-> "Trait", name |-> n, batch_key |-> bk]
CallResolver(n, a) == [kind |-> "Call", trait_name |-> n, args |-> a]

is_batched_mut(resolver) == FALSE

is_batched(resolver) ==
    IF resolver.kind = "Trait" THEN resolver.batch_key # <<>> ELSE FALSE

resolver_name(resolver) ==
    IF resolver.kind = "Trait" THEN resolver.name ELSE resolver.trait_name

FieldConfig(n, ft, r) ==
    [name |-> n, field_type |-> ft, arguments |-> <<>>, resolver |-> r]

TypeConfig(n, fs) == [name |-> n, fields |-> fs]

GraphQLConfig(ts, q, m) == [types |-> ts, query_type |-> q, mutation_type |-> m]

DefaultConfig == GraphQLConfig(<<>>, <<>>, <<>>)

----------------------------------------------------------------------------
(* Resolver registry: registry/storage.rs                                  *)

TraitRegistry(rs, bs) == [resolvers |-> rs, batch_resolvers |-> bs]

NewRegistry == TraitRegistry(<<>>, <<>>)

has_resolver(reg, name) == name \in DOMAIN reg.resolvers

has_batch_resolver_mut(reg, name) == name \in DOMAIN reg.resolvers

has_batch_resolver(reg, name) == name \in DOMAIN reg.batch_resolvers

\* ResolverResult<Arc<_>>: handle is the Option of the Arc returned, error
\* the Option of the ResolverError.
NotFound(name) == [type |-> "NotFound", name |-> name]
Found(handle) == [ok |-> TRUE, handle |-> <<handle>>, error |-> <<>>]
Missing(name) == [ok |-> FALSE, handle |-> <<>>, error |-> <<NotFound(name)>>]

get_resolver_mut(reg, name) ==
    IF name \in DOMAIN reg.resolvers THEN Found(reg.resolvers[name])
    ELSE IF name \in DOMAIN reg.batch_resolvers
    THEN Found(reg.batch_resolvers[name])
    ELSE Missing(name)

get_resolver(reg, name) ==
    IF name \in DOMAIN reg.resolvers THEN Found(reg.resolvers[name])
    ELSE Missing(name)

get_batch_resolver(reg, name) ==
    IF name \in DOMAIN reg.batch_resolvers THEN Found(reg.batch_resolvers[name])
    ELSE Missing(name)

\* The registry as a lookup leaves it: get_resolver and get_batch_resolver
\* take &self and read the map with get(name).cloned().
registry_after_get_mut(reg, name) ==
    [reg EXCEPT !.resolvers = [n \in DOMAIN @ \ {name} |-> @[n]]]

registry_after_get(reg, name) == reg

----------------------------------------------------------------------------
(* N+1 detector: n1/detector.rs                                            *)

HasType(cfg, t) == t \in DOMAIN cfg.types

N1Error_mut(p, fname, parent) ==
    [path |-> p, field_name |-> fname, parent_type |-> p[1],
     message |-> <<"Field", fname, "on type", parent>>]

N1Error(p, fname, parent) ==
    [path |-> p, field_name |-> fname, parent_type |-> parent,
     message |-> <<"Field", fname, "on type", parent>>]

\* type_config.fields.iter().find(|f| &f.name == segment): index of the
\* first field with that name, 0 when there is none.
FindField(fields, segment) ==
    IF \E i \in 1..Len(fields) : fields[i].name = segment
    THEN CHOOSE i \in 1..Len(fields) :
            /\ fields[i].name = segment
            /\ \A j \in 1..(i - 1) : fields[j].name # segment
    ELSE 0

\* The for loop of is_in_list_context.  Indices are 1-based: the Rust index
\* i corresponds to i + 1 here, so the loop runs from 2 and breaks at Len(path).
RECURSIVE ListContextLoop(_, _, _, _)
ListContextLoop(cfg, path, i, current_type) ==
    IF i > Len(path) THEN FALSE
    ELSE IF i = Len(path) THEN FALSE
    ELSE IF ~HasType(cfg, current_type) THEN FALSE
    ELSE LET fields == cfg.types[current_type].fields
             k == FindField(fields, path[i])
         IN  IF k = 0 THEN FALSE
             ELSE IF is_list(fields[k].field_type) THEN TRUE
             ELSE LET inner == inner_type_name(fields[k].field_type)
                      next == IF inner # <<>> /\ HasType(cfg, inner[1])
                              THEN inner[1] ELSE current_type
                  IN  ListContextLoop(cfg, path, i + 1, next)

\* Variant that also inspects the last segment (the field itself).
RECURSIVE ListContextLoopOwn(_, _, _, _)
ListContextLoopOwn(cfg, path, i, current_type) ==
    IF i > Len(path) THEN FALSE
    ELSE IF ~HasType(cfg, current_type) THEN FALSE
    ELSE LET fields == cfg.types[current_type].fields
             k == FindField(fields, path[i])
         IN  IF k = 0 THEN FALSE
             ELSE IF is_list(fields[k].field_type) THEN TRUE
             ELSE LET inner == inner_type_name(fields[k].field_type)
                      next == IF inner # <<>> /\ HasType(cfg, inner[1])
                              THEN inner[1] ELSE current_type
                  IN  ListContextLoopOwn(cfg, path, i + 1, next)

RootTypeOrDefault(cfg) ==
    IF cfg.query_type # <<>> THEN cfg.query_type[1] ELSE "Query"

is_in_list_context_mut(cfg, path) ==
    IF Len(path) < 2 THEN FALSE
    ELSE ListContextLoopOwn(cfg, path, 2, RootTypeOrDefault(cfg))

is_in_list_context(cfg, path) ==
    IF Len(path) < 2 THEN FALSE
    ELSE ListContextLoop(cfg, path, 2, RootTypeOrDefault(cfg))

\* check_field: the errors it pushes (none or one).
check_field(cfg, reg, parent_type, field, path) ==
    IF field.resolver = <<>> THEN <<>>
    ELSE LET resolver == field.resolver[1]
             in_list_context == is_in_list_context(cfg, path)
             batched == is_batched(resolver)
                        \/ has_batch_resolver(reg, resolver_name(resolver))
         IN  IF in_list_context /\ ~batched
             THEN <<N1Error(path, field.name, parent_type)>>
             ELSE <<>>

\* The guard at the head of traverse.
traverse_guard_mut(vis, type_name) == FALSE

traverse_guard(vis, type_name) == type_name \in vis

\* visited.remove(type_name) at the end of traverse.
visited_after_return_mut(vis, type_name) == vis

visited_after_return(vis, type_name) == vis \ {type_name}

\* The value detect returns for the accumulated errors.
Ok == [ok |-> TRUE, errors |-> <<>>]
Err(es) == [ok |-> FALSE, errors |-> es]

detect_result_mut(es) == IF es = <<>> THEN Ok ELSE Err(<<es[1]>>)

detect_result(es) == IF es = <<>> THEN Ok ELSE Err(es)

Frame(t, p, i) == [type_name |-> t, path |-> p, i |-> i]

Top == stack[Len(stack)]
Pop == SubSeq(stack, 1, Len(stack) - 1)
SetTopIndex(i) == [stack EXCEPT ![Len(stack)].i = i]

\* A detect that falls back on the mutation root.
DetectStart_mut ==
    /\ pc = "start"
    /\ IF config.query_type # <<>> \/ config.mutation_type # <<>>
       THEN /\ \E root \in {IF config.query_type # <<>> THEN config.query_type[1]
                            ELSE config.mutation_type[1]} :
                  stack' = <<Frame(root, <<root>>, 0)>>
            /\ pc' = "traverse"
       ELSE /\ pc' = "finish"
            /\ UNCHANGED stack
    /\ UNCHANGED <<config, registry, visited, errors, result, serverVars>>

\* detect, lines 22-26: call traverse on the query root, if there is one.
DetectStart ==
    /\ pc = "start"
    /\ IF config.query_type # <<>>
       THEN /\ stack' = <<Frame(config.query_type[1],
                                <<config.query_type[1]>>, 0)>>
            /\ pc' = "traverse"
       ELSE /\ pc' = "finish"
            /\ UNCHANGED stack
    /\ UNCHANGED <<config, registry, visited, errors, result, serverVars>>

\* traverse, lines 36-43: the cycle guard, the insert and the type lookup.
TraverseEnter ==
    /\ pc = "traverse"
    /\ stack # <<>>
    /\ Top.i = 0
    /\ IF traverse_guard(visited, Top.type_name)
       THEN /\ stack' = Pop
            /\ UNCHANGED visited
       ELSE /\ visited' = visited \cup {Top.type_name}
            /\ IF HasType(config, Top.type_name)
               THEN stack' = SetTopIndex(1)
               ELSE stack' = Pop
    /\ UNCHANGED <<config, registry, pc, errors, result, serverVars>>

\* traverse, lines 45-56: one iteration of the loop over the type's fields.
TraverseField ==
    /\ pc = "traverse"
    /\ stack # <<>>
    /\ Top.i >= 1
    /\ Top.i <= Len(config.types[Top.type_name].fields)
    /\ LET field == config.types[Top.type_name].fields[Top.i]
           field_path == Append(Top.path, field.name)
           inner == inner_type_name(field.field_type)
       IN  /\ errors' = errors \o check_field(config, registry, Top.type_name,
                                              field, field_path)
           /\ IF inner # <<>> /\ HasType(config, inner[1])
              THEN /\ Len(stack) < MaxDepth
                   /\ stack' = Append(SetTopIndex(Top.i + 1),
                                      Frame(inner[1], field_path, 0))
              ELSE stack' = SetTopIndex(Top.i + 1)
    /\ UNCHANGED <<config, registry, pc, visited, result, serverVars>>

\* traverse, line 58: the loop is over, leave the type.
TraverseReturn ==
    /\ pc = "traverse"
    /\ stack # <<>>
    /\ Top.i >= 1
    /\ Top.i > Len(config.types[Top.type_name].fields)
    /\ visited' = visited_after_return(visited, Top.type_name)
    /\ stack' = Pop
    /\ UNCHANGED <<config, registry, pc, errors, result, serverVars>>

\* detect, lines 28-32: Ok or Err(self.errors).
DetectFinish ==
    /\ \/ pc = "finish"
       \/ pc = "traverse" /\ stack = <<>>
    /\ result' = <<detect_result(errors)>>
    /\ pc' = "done"
    /\ UNCHANGED <<config, registry, stack, visited, errors, serverVars>>

----------------------------------------------------------------------------
(* detect as one call: what GraphQLServerBuilder::validate gets back.      *)

\* The value of a let binding: {e(v) : v \in {value}} computes value once
\* and holds the one result of the code that follows the binding.
Only(S) == CHOOSE r \in S : TRUE

\* The detector's mutable state during one call: self.errors and visited.
Acc(es, vis) == [errors |-> es, visited |-> vis]

PushErrors(acc, es) == [acc EXCEPT !.errors = @ \o es]

Leave(acc, type_name) ==
    [acc EXCEPT !.visited = visited_after_return(@, type_name)]

RECURSIVE traverse(_, _, _, _, _)
RECURSIVE traverse_fields(_, _, _, _, _, _)

\* traverse, lines 35-59, as a function of the state it is entered with.
traverse(cfg, reg, type_name, path, acc) ==
    IF traverse_guard(acc.visited, type_name) THEN acc
    ELSE IF ~HasType(cfg, type_name)
    THEN [acc EXCEPT !.visited = @ \cup {type_name}]
    ELSE Leave(traverse_fields(cfg, reg, type_name, path,
                               [acc EXCEPT !.visited = @ \cup {type_name}], 1),
               type_name)

\* One iteration of the loop of traverse: check_field, then the recursive
\* call when the field's inner type is a type of the configuration.
traverse_field(cfg, reg, type_name, path, acc, field) ==
    IF inner_type_name(field.field_type) # <<>>
       /\ HasType(cfg, inner_type_name(field.field_type)[1])
    THEN traverse(cfg, reg, inner_type_name(field.field_type)[1],
                  Append(path, field.name),
                  PushErrors(acc, check_field(cfg, reg, type_name, field,
                                              Append(path, field.name))))
    ELSE PushErrors(acc, check_field(cfg, reg, type_name, field,
                                     Append(path, field.name)))

\* The loop of traverse from field i on.
traverse_fields(cfg, reg, type_name, path, acc, i) ==
    IF i > Len(cfg.types[type_name].fields) THEN acc
    ELSE Only({traverse_fields(cfg, reg, type_name, path, after, i + 1) :
                 after \in {traverse_field(cfg, reg, type_name, path, acc,
                                           cfg.types[type_name].fields[i])}})

detect(cfg, reg) ==
    IF cfg.query_type # <<>>
    THEN detect_result(traverse(cfg, reg, cfg.query_type[1],
                                <<cfg.query_type[1]>>, Acc(<<>>, {})).errors)
    ELSE detect_result(<<>>)

----------------------------------------------------------------------------
(* Schema text and its parser: config/parser.rs, directive/*.rs            *)
(*                                                                         *)
(* Schema text is the sequence of definitions the external grammar reads   *)
(* from it; a piece of text the grammar rejects is an Invalid item.        *)

SchemaDef(q, m) == [def |-> "Schema", query |-> q, mutation |-> m]
TypeDef(n, k, fs) == [def |-> "Type", name |-> n, kind |-> k, fields |-> fs]
DirectiveDef(n) == [def |-> "Directive", name |-> n]
Invalid == [def |-> "Invalid"]

NamedBase(n) == [kind |-> "Named", name |-> n]
ListBase(ty) == [kind |-> "List", inner |-> ty]
Type(base, nullable) == [base |-> base, nullable |-> nullable]

\* ConstValue.  The text of a string value that is examined by prefix is a
\* sequence of pieces ("$parent.", "$arg.", a name, ...); a string that is
\* only compared or copied is written whole.
StringValue(s) == [kind |-> "String", s |-> s]
NumberValue(n) == [kind |-> "Number", n |-> n]
BooleanValue(b) == [kind |-> "Boolean", b |-> b]
NullValue == [kind |-> "Null"]
EnumValue(e) == [kind |-> "Enum", e |-> e]
ListValue(items) == [kind |-> "List", items |-> items]
ObjectValue(entries) == [kind |-> "Object", entries |-> entries]
ConstDirective(n, args) == [name |-> n, arguments |-> args]
FieldDefinition(n, ty, ds) ==
    [name |-> n, ty |-> ty, arguments |-> <<>>, directives |-> ds]

RECURSIVE convert_type(_)
\* convert_base_type(&ty.base, ty.nullable)
convert_type(ty) ==
    LET inner == IF ty.base.kind = "Named" THEN Named(ty.base.name)
                 ELSE List(convert_type(ty.base.inner))
    IN  IF ty.nullable THEN inner ELSE NonNull(inner)

\* First element of a sequence satisfying a test on its name, as an Option.
FirstNamed(seq, name) ==
    IF \E i \in 1..Len(seq) : seq[i].name = name
    THEN <<seq[CHOOSE i \in 1..Len(seq) :
                 /\ seq[i].name = name
                 /\ \A j \in 1..(i - 1) : seq[j].name # name]>>
    ELSE <<>>

find_directive(directives, name) == FirstNamed(directives, name)

get_directive_argument(directive, name) ==
    LET a == FirstNamed(directive.arguments, name)
    IN  IF a = <<>> THEN <<>> ELSE <<a[1].value>>

get_string_argument(directive, name) ==
    LET v == get_directive_argument(directive, name)
    IN  IF v # <<>> /\ v[1].kind = "String" THEN <<v[1].s>> ELSE <<>>

parse_resolver_directive(directive) ==
    IF directive.name # "resolver" THEN <<>>
    ELSE LET name == get_string_argument(directive, "name")
         IN  IF name = <<>> THEN <<>> ELSE <<[name |-> name[1]]>>

parse_batch_key_directive(directive) ==
    IF directive.name # "batchKey" THEN <<>>
    ELSE LET field == get_string_argument(directive, "field")
         IN  IF field = <<>> THEN <<>> ELSE <<[field |-> field[1]]>>

\* ArgumentMapping
ParentField(field) == [mapping |-> "ParentField", field |-> field]
Argument(arg) == [mapping |-> "Argument", arg |-> arg]
Literal(json) == [mapping |-> "Literal", json |-> json]

\* const_value_to_json over the values used here (numbers are integers).
RECURSIVE const_value_to_json(_)
const_value_to_json(value) ==
    IF value.kind = "Null" THEN [json |-> "Null"]
    ELSE IF value.kind = "Boolean" THEN [json |-> "Bool", b |-> value.b]
    ELSE IF value.kind = "Number" THEN [json |-> "Number", n |-> value.n]
    ELSE IF value.kind = "String" THEN [json |-> "String", s |-> value.s]
    ELSE IF value.kind = "Enum" THEN [json |-> "String", s |-> value.e]
    ELSE IF value.kind = "List"
    THEN [json |-> "Array",
          items |-> [i \in 1..Len(value.items) |-> const_value_to_json(value.items[i])]]
    ELSE [json |-> "Object",
          entries |-> [i \in 1..Len(value.entries) |->
                          [name |-> value.entries[i].name,
                           value |-> const_value_to_json(value.entries[i].value)]]]

\* str::strip_prefix on a text given as pieces.
strip_prefix(s, prefix) ==
    IF s # <<>> /\ Head(s) = prefix THEN <<Tail(s)>> ELSE <<>>

parse_argument_mapping_mut(value) ==
    IF value.kind = "String"
    THEN IF strip_prefix(value.s, "$parent.") # <<>>
         THEN <<ParentField(strip_prefix(value.s, "$parent.")[1])>>
         ELSE IF strip_prefix(value.s, "$arg.") # <<>>
         THEN <<Argument(strip_prefix(value.s, "$arg.")[1])>>
         ELSE <<Literal(const_value_to_json(value))>>
    ELSE <<>>

parse_argument_mapping(value) ==
    IF value.kind = "String"
    THEN IF strip_prefix(value.s, "$parent.") # <<>>
         THEN <<ParentField(strip_prefix(value.s, "$parent.")[1])>>
         ELSE IF strip_prefix(value.s, "$arg.") # <<>>
         THEN <<Argument(strip_prefix(value.s, "$arg.")[1])>>
         ELSE <<Literal(const_value_to_json(value))>>
    ELSE <<Literal(const_value_to_json(value))>>

\* The for loop of parse_call_args from entry i on.
RECURSIVE InsertMappings(_, _, _)
InsertMappings(entries, i, args) ==
    IF i > Len(entries) THEN args
    ELSE Only({InsertMappings(entries, i + 1, next) :
                 next \in {IF parse_argument_mapping(entries[i].value) # <<>>
                           THEN [k \in DOMAIN args \cup {entries[i].name} |->
                                    IF k = entries[i].name
                                    THEN parse_argument_mapping(entries[i].value)[1]
                                    ELSE args[k]]
                           ELSE args}})

parse_call_args(directive) ==
    LET a == get_directive_argument(directive, "args")
    IN  IF a # <<>> /\ a[1].kind = "Object"
        THEN InsertMappings(a[1].entries, 1, <<>>)
        ELSE <<>>

parse_call_directive(directive) ==
    IF directive.name # "call" THEN <<>>
    ELSE LET trait_name == get_string_argument(directive, "trait")
         IN  IF trait_name = <<>> THEN <<>>
             ELSE <<[trait_name |-> trait_name[1],
                     args |-> parse_call_args(directive)]>>

\* An extraction that lets @batchKey turn a @call binding into a batched one.
extract_resolver_mut(directives) ==
    LET call_dir == find_directive(directives, "call")
        call == IF call_dir = <<>> THEN <<>> ELSE parse_call_directive(call_dir[1])
        resolver_dir == find_directive(directives, "resolver")
        resolver_d == IF resolver_dir = <<>> THEN <<>>
                      ELSE parse_resolver_directive(resolver_dir[1])
        bk_dir == find_directive(directives, "batchKey")
        bk == IF bk_dir = <<>> THEN <<>> ELSE parse_batch_key_directive(bk_dir[1])
        batch_key == IF bk = <<>> THEN <<>> ELSE <<bk[1].field>>
    IN  IF call # <<>> /\ batch_key # <<>>
        THEN <<TraitResolver(call[1].trait_name, batch_key)>>
        ELSE IF call # <<>> THEN <<CallResolver(call[1].trait_name, call[1].args)>>
        ELSE IF resolver_d # <<>> THEN <<TraitResolver(resolver_d[1].name, batch_key)>>
        ELSE <<>>

extract_resolver(directives) ==
    LET call_dir == find_directive(directives, "call")
        call == IF call_dir = <<>> THEN <<>> ELSE parse_call_directive(call_dir[1])
        resolver_dir == find_directive(directives, "resolver")
        resolver_d == IF resolver_dir = <<>> THEN <<>>
                      ELSE parse_resolver_directive(resolver_dir[1])
        bk_dir == find_directive(directives, "batchKey")
        bk == IF bk_dir = <<>> THEN <<>> ELSE parse_batch_key_directive(bk_dir[1])
        batch_key == IF bk = <<>> THEN <<>> ELSE <<bk[1].field>>
    IN  IF call # <<>> THEN <<CallResolver(call[1].trait_name, call[1].args)>>
        ELSE IF resolver_d # <<>> THEN <<TraitResolver(resolver_d[1].name, batch_key)>>
        ELSE <<>>

process_field(field) ==
    [name |-> field.name, field_type |-> convert_type(field.ty),
     arguments |-> <<>>, resolver |-> extract_resolver(field.directives)]

process_fields(fields) == [i \in 1..Len(fields) |-> process_field(fields[i])]

\* name.starts_with("__") over the type names used here.
IntrospectionNames == {"__Schema", "__Type"}

process_type_definition_mut(type_def) ==
    IF type_def.kind \in {"Object", "Interface"}
    THEN <<TypeConfig(type_def.name, process_fields(type_def.fields))>>
    ELSE <<>>

process_type_definition(type_def) ==
    IF type_def.name \in IntrospectionNames THEN <<>>
    ELSE IF type_def.kind \in {"Object", "Interface"}
    THEN <<TypeConfig(type_def.name, process_fields(type_def.fields))>>
    ELSE <<>>

process_schema_definition(schema_def, cfg) ==
    [cfg EXCEPT
        !.query_type = IF schema_def.query # <<>> THEN schema_def.query ELSE @,
        !.mutation_type = IF schema_def.mutation # <<>> THEN schema_def.mutation ELSE @]

\* config.types.insert(name, type_config): a later entry replaces an earlier one.
InsertType(cfg, tc) ==
    [cfg EXCEPT !.types = [n \in DOMAIN cfg.types \cup {tc.name} |->
                              IF n = tc.name THEN tc ELSE cfg.types[n]]]

infer_root_types_mut(cfg) ==
    [cfg EXCEPT
        !.query_type = IF HasType(cfg, "Query") THEN <<"Query">> ELSE @,
        !.mutation_type = IF HasType(cfg, "Mutation") THEN <<"Mutation">> ELSE @]

infer_root_types(cfg) ==
    [cfg EXCEPT
        !.query_type = IF @ = <<>> /\ HasType(cfg, "Query") THEN <<"Query">> ELSE @,
        !.mutation_type = IF @ = <<>> /\ HasType(cfg, "Mutation")
                          THEN <<"Mutation">> ELSE @]

\* The for loop of build_config_from_document from definition i on.
RECURSIVE ProcessDefinitions(_, _, _)
ProcessDefinitions(defs, i, cfg) ==
    IF i > Len(defs) THEN cfg
    ELSE Only({ProcessDefinitions(defs, i + 1, next) :
                 next \in {IF defs[i].def = "Schema"
                           THEN process_schema_definition(defs[i], cfg)
                           ELSE IF defs[i].def = "Type"
                           THEN Only({IF tc # <<>> THEN InsertType(cfg, tc[1])
                                      ELSE cfg :
                                        tc \in {process_type_definition(defs[i])}})
                           ELSE cfg}})

build_config_from_document(document) ==
    infer_root_types(ProcessDefinitions(document, 1, DefaultConfig))

\* parse_sdl: the grammar's verdict, then the configuration.
parse_sdl_mut(sdl) ==
    [ok |-> TRUE, config |-> <<build_config_from_document(sdl)>>, error |-> <<>>]

parse_sdl(sdl) ==
    IF \E i \in 1..Len(sdl) : sdl[i].def = "Invalid"
    THEN [ok |-> FALSE, config |-> <<>>,
          error |-> <<"Failed to parse SDL", "grammar error">>]
    ELSE [ok |-> TRUE, config |-> <<build_config_from_document(sdl)>>,
          error |-> <<>>]

Join_mut(parts) == IF parts = <<>> THEN <<>> ELSE parts[Len(parts)]

\* self.sdl_parts.join("\n")
RECURSIVE Join(_)
Join(parts) == IF parts = <<>> THEN <<>> ELSE Head(parts) \o Join(Tail(parts))

----------------------------------------------------------------------------
(* Server builder: server.rs                                               *)

DefaultBatchDelayMs == 1
DefaultMaxBatchSize == 100

GraphQLServerBuilder(parts, reg, delay, size, n1) ==
    [sdl_parts |-> parts, registry |-> reg, batch_delay |-> delay,
     max_batch_size |-> size, validate_n1 |-> n1]

NewBuilder ==
    GraphQLServerBuilder(<<>>, NewRegistry, DefaultBatchDelayMs,
                         DefaultMaxBatchSize, TRUE)

\* FxHashMap::insert(name, Arc::new(resolver))
MapInsert(map, name, handle) ==
    [n \in DOMAIN map \cup {name} |-> IF n = name THEN handle ELSE map[n]]

register_resolver_mut(reg, name, handle) ==
    IF name \in DOMAIN reg.resolvers THEN reg
    ELSE [reg EXCEPT !.resolvers = MapInsert(reg.resolvers, name, handle)]

register_resolver(reg, name, handle) ==
    [reg EXCEPT !.resolvers = MapInsert(reg.resolvers, name, handle)]

register_batch_resolver_mut(reg, name, handle) ==
    [reg EXCEPT !.resolvers = MapInsert(reg.resolvers, name, handle)]

register_batch_resolver(reg, name, handle) ==
    [reg EXCEPT !.batch_resolvers = MapInsert(reg.batch_resolvers, name, handle)]

ConfigError(msg) == [type |-> "Config", msg |-> msg, errors |-> <<>>]
ParseServerError(msg) == [type |-> "Parse", msg |-> msg, errors |-> <<>>]
N1Detection(es) == [type |-> "N1Detection", msg |-> <<>>, errors |-> es]
ResolverServerError(msg) == [type |-> "Resolver", msg |-> msg, errors |-> <<>>]

ValidatedServerBuilder(cfg, reg, delay, size) ==
    [config |-> cfg, registry |-> reg, batch_delay |-> delay,
     max_batch_size |-> size]

\* What a call returned: error is the Option of the ServerError, value the
\* Option of the Ok value, ran the collaborators it called, in order.
Returns(err, val, ran) == [error |-> err, value |-> val, ran |-> ran]

skip_n1_validation_mut(b) == b

skip_n1_validation(b) == [b EXCEPT !.validate_n1 = FALSE]

\* The test of lines 88-91: is the detector to be run?
runs_detector(b) == b.validate_n1

\* The test of lines 81-83: was no schema text supplied?
sdl_missing_mut(b) == FALSE

sdl_missing(b) == b.sdl_parts = <<>>

\* map_err(ServerError::N1Detection): the detector's list goes into the error.
n1_error_mut(es) == N1Detection(<<es[1]>>)

n1_error(es) == N1Detection(es)

\* GraphQLServerBuilder::validate, lines 80-99.
\* validate after parse_sdl has returned Ok(cfg), lines 86-98.
validate_config_mut(b, cfg) ==
    IF \E t \in DOMAIN cfg.types : \E i \in 1..Len(cfg.types[t].fields) :
          /\ cfg.types[t].fields[i].resolver # <<>>
          /\ ~has_resolver(b.registry, resolver_name(cfg.types[t].fields[i].resolver[1]))
          /\ ~has_batch_resolver(b.registry,
                                 resolver_name(cfg.types[t].fields[i].resolver[1]))
    THEN Returns(<<ResolverServerError("NotFound")>>, <<>>, <<"parse_sdl">>)
    ELSE Returns(<<>>,
                 <<ValidatedServerBuilder(cfg, b.registry, b.batch_delay,
                                          b.max_batch_size)>>,
                 <<"parse_sdl">>)

validate_config(b, cfg) ==
    IF runs_detector(b)
    THEN Only({IF ~d.ok
               THEN Returns(<<n1_error(d.errors)>>, <<>>,
                            <<"parse_sdl", "detect">>)
               ELSE Returns(<<>>,
                            <<ValidatedServerBuilder(cfg, b.registry,
                                  b.batch_delay, b.max_batch_size)>>,
                            <<"parse_sdl", "detect">>) :
                 d \in {detect(cfg, b.registry)}})
    ELSE Returns(<<>>,
                 <<ValidatedServerBuilder(cfg, b.registry, b.batch_delay,
                                          b.max_batch_size)>>,
                 <<"parse_sdl">>)

\* GraphQLServerBuilder::validate, lines 80-99.
validate(b) ==
    IF sdl_missing(b)
    THEN Returns(<<ConfigError("SDL not provided")>>, <<>>, <<>>)
    ELSE Only({IF ~parsed.ok
               THEN Returns(<<ParseServerError(parsed.error)>>, <<>>,
                            <<"parse_sdl">>)
               ELSE validate_config(b, parsed.config[1]) :
                 parsed \in {parse_sdl(Join(b.sdl_parts))}})

\* ValidatedServerBuilder::build, lines 114-125; compiled tells whether the
\* external schema compilation succeeded.
validated_build(v, compiled) ==
    IF compiled
    THEN Returns(<<>>,
                 <<[schema |-> v.config, registry |-> v.registry,
                    batch_delay |-> v.batch_delay,
                    max_batch_size |-> v.max_batch_size]>>,
                 <<"SchemaBuilder::build">>)
    ELSE Returns(<<ResolverServerError("Execution")>>, <<>>,
                 <<"SchemaBuilder::build">>)

\* GraphQLServerBuilder::build, lines 101-103: self.validate()?.build()
build_mut(b, compiled) ==
    Only({IF v.error # <<>> THEN v
          ELSE [validated_build(v.value[1], compiled) EXCEPT !.ran = v.ran \o @] :
            v \in {validate(skip_n1_validation(b))}})

build(b, compiled) ==
    Only({IF v.error # <<>> THEN v
          ELSE [validated_build(v.value[1], compiled) EXCEPT !.ran = v.ran \o @] :
            v \in {validate(b)}})

\* The builder is usable until validate() or build() has consumed it.
Unvalidated == builder # <<>> /\ outcome = <<>>

----------------------------------------------------------------------------
(* The configurations and registries the detector is run on.               *)

TypeNames == {"Query", "User", "Post"}

\* The field names each type may declare, in declaration order.
SlotNames == [Query |-> <<"a", "b">>, User |-> <<"a", "b">>, Post |-> <<"a">>]

\* Inner type names a field of each type may carry; a name whose type is
\* not declared plays the part of a scalar.
Targets == [Query |-> {"User", "Post"}, User |-> {"User", "Post"},
            Post |-> {"User"}]

ResolverNames == {"getPosts"}

\* First fields are plain or non-null lists of non-null items, second fields
\* non-null or plain lists.
ShapeChoices(k, n) ==
    IF k = 1 THEN {Named(n), NonNull(List(NonNull(Named(n))))}
    ELSE {NonNull(Named(n)), List(Named(n))}

\* No resolver, a resolver without batch key (the Trait variant on first
\* fields, the Call variant on second fields), or, below the root type,
\* Trait with a batch key.
ResolverChoices(t, k) ==
    {<<>>}
    \cup {<<IF k = 1 THEN TraitResolver(n, <<>>) ELSE CallResolver(n, <<>>)>>
            : n \in ResolverNames}
    \cup (IF t = "Query" THEN {}
          ELSE {<<TraitResolver(n, <<"id">>)>> : n \in ResolverNames})

SlotChoices(t, k) ==
    UNION {{FieldConfig(SlotNames[t][k], ft, r) : ft \in ShapeChoices(k, n),
                                                  r \in ResolverChoices(t, k)}
           : n \in Targets[t]}

RECURSIVE FieldSeqs(_, _)
FieldSeqs(t, n) ==
    IF n = 0 THEN {<<>>}
    ELSE {Append(s, f) : s \in FieldSeqs(t, n - 1), f \in SlotChoices(t, n)}

\* A type is declared when it has at least one field.
MakeConfig(decl, q) ==
    GraphQLConfig([t \in {u \in TypeNames : decl[u] # <<>>}
                     |-> TypeConfig(t, decl[t])], q, <<>>)

\* The query roots the parser can produce: the inferred "Query" when that
\* type is declared; otherwise none, or the name given by a schema block.
QueryTypeChoices(decl) ==
    IF decl["Query"] # <<>> THEN {<<"Query">>} ELSE {<<>>, <<"Query">>}

\* The mutation roots: none, or Post named by a schema block when Post is
\* declared and User is not.
MutationTypeChoices(decl) ==
    IF decl["Post"] # <<>> /\ decl["User"] = <<>> THEN {<<>>, <<"Post">>} ELSE {<<>>}

\* No registration at all, or a batch resolver under the one name.
Registries ==
    {TraitRegistry(<<>>, [n \in bs |-> "batch"]) : bs \in SUBSET ResolverNames}

DetectorIdle ==
    /\ config = DefaultConfig
    /\ registry = NewRegistry
    /\ pc = "idle"
    /\ stack = <<>>
    /\ visited = {}
    /\ errors = <<>>
    /\ result = <<>>

ServerIdle ==
    /\ builder = <<>>
    /\ validated = <<>>
    /\ server = <<>>
    /\ outcome = <<>>
    /\ history = <<>>
    /\ requests = <<>>

Init ==
    /\ \E lq \in 0..Len(SlotNames["Query"]), lu \in 0..Len(SlotNames["User"]),
          lp \in 0..Len(SlotNames["Post"]) :
          /\ lq + lu + lp <= MaxFields
          /\ (lq = 0 => lu + lp <= 1)
          /\ \E fq \in FieldSeqs("Query", lq), fu \in FieldSeqs("User", lu),
                fp \in FieldSeqs("Post", lp) :
                LET decl == [Query |-> fq, User |-> fu, Post |-> fp]
                IN  \E q \in QueryTypeChoices(decl), m \in MutationTypeChoices(decl) :
                       config = [MakeConfig(decl, q) EXCEPT !.mutation_type = m]
    /\ registry \in Registries
    /\ pc = "start"
    /\ stack = <<>>
    /\ visited = {}
    /\ errors = <<>>
    /\ result = <<>>
    /\ ServerIdle

Next ==
    \/ DetectStart
    \/ TraverseEnter
    \/ TraverseField
    \/ TraverseReturn
    \/ DetectFinish

Spec == Init /\ [][Next]_vars

\* detect is a plain sequential function: every step that can run does run.
FairSpec == Spec /\ WF_vars(Next)

----------------------------------------------------------------------------
(* The schema text fragments handed to sdl().                              *)

NonNullNamed(n) == Type(NamedBase(n), FALSE)
NonNullListOf(n) == Type(ListBase(NonNullNamed(n)), FALSE)

ResolverDir(n) ==
    ConstDirective("resolver", <<[name |-> "name", value |-> StringValue(n)]>>)
BatchKeyDir(f) ==
    ConstDirective("batchKey", <<[name |-> "field", value |-> StringValue(f)]>>)

\* type Query { users: [User!]! }
FragQuery ==
    <<TypeDef("Query", "Object",
              <<FieldDefinition("users", NonNullListOf("User"), <<>>)>>)>>

\* type User { id: ID!  posts: [Post!]! @resolver(name: "getPosts") }
FragUser ==
    <<TypeDef("User", "Object",
              <<FieldDefinition("id", NonNullNamed("ID"), <<>>),
                FieldDefinition("posts", NonNullListOf("Post"),
                                <<ResolverDir("getPosts")>>)>>)>>

\* type User { id: ID!
\*             posts: [Post!]! @resolver(name: "getPosts") @batchKey(field: "id") }
FragUserBatched ==
    <<TypeDef("User", "Object",
              <<FieldDefinition("id", NonNullNamed("ID"), <<>>),
                FieldDefinition("posts", NonNullListOf("Post"),
                                <<ResolverDir("getPosts"), BatchKeyDir("id")>>)>>)>>

\* type Query { users: [User!]!  admins: [User!]! }
\* type User { posts: [Post!]! @resolver(name: "getPosts") }
FragTwoPaths ==
    <<TypeDef("Query", "Object",
              <<FieldDefinition("users", NonNullListOf("User"), <<>>),
                FieldDefinition("admins", NonNullListOf("User"), <<>>)>>),
      TypeDef("User", "Object",
              <<FieldDefinition("posts", NonNullListOf("Post"),
                                <<ResolverDir("getPosts")>>)>>)>>

\* invalid graphql
FragInvalid == <<Invalid>>

\* type User { id: ID!
\*             posts: [Post!]! @call(trait: "getPosts") @batchKey(field: "id") }
FragUserCallKeyed ==
    <<TypeDef("User", "Object",
              <<FieldDefinition("id", NonNullNamed("ID"), <<>>),
                FieldDefinition("posts", NonNullListOf("Post"),
                    <<ConstDirective("call",
                          <<[name |-> "trait", value |-> StringValue("getPosts")]>>),
                      BatchKeyDir("id")>>)>>)>>

\* type User { id: ID!  posts: [Post!]! @batchKey(field: "id") }
FragUserKeyOnly ==
    <<TypeDef("User", "Object",
              <<FieldDefinition("id", NonNullNamed("ID"), <<>>),
                FieldDefinition("posts", NonNullListOf("Post"),
                                <<BatchKeyDir("id")>>)>>)>>

Fragments ==
    {FragQuery, FragUser, FragUserBatched, FragTwoPaths, FragInvalid,
     FragUserCallKeyed, FragUserKeyOnly}

BatchDelays == {DefaultBatchDelayMs, 5}
BatchSizes == {DefaultMaxBatchSize, 200}

\* GraphQLServerBuilder::sdl
Sdl ==
    /\ Unvalidated
    /\ Len(builder[1].sdl_parts) < MaxSdlParts
    /\ \E f \in Fragments :
          builder' = <<[builder[1] EXCEPT !.sdl_parts = Append(@, f)]>>
    /\ history' = [history EXCEPT !.sdl_calls = @ + 1]
    /\ UNCHANGED <<validated, server, outcome, requests, detectorVars>>

\* GraphQLServerBuilder::register_resolver; the handle is a fresh Arc.
RegisterResolver ==
    /\ Unvalidated
    /\ history.registrations < MaxRegistrations
    /\ \E n \in ResolverNames :
          builder' = <<[builder[1] EXCEPT !.registry =
                          register_resolver(@, n, history.registrations + 1)]>>
    /\ history' = [history EXCEPT !.registrations = @ + 1]
    /\ UNCHANGED <<validated, server, outcome, requests, detectorVars>>

\* GraphQLServerBuilder::register_batch_resolver
RegisterBatchResolver ==
    /\ Unvalidated
    /\ history.registrations < MaxRegistrations
    /\ \E n \in ResolverNames :
          builder' = <<[builder[1] EXCEPT !.registry =
                          register_batch_resolver(@, n, history.registrations + 1)]>>
    /\ history' = [history EXCEPT !.registrations = @ + 1]
    /\ UNCHANGED <<validated, server, outcome, requests, detectorVars>>

\* GraphQLServerBuilder::batch_delay
BatchDelay ==
    /\ Unvalidated
    /\ \E d \in BatchDelays :
          builder' = <<[builder[1] EXCEPT !.batch_delay = d]>>
    /\ UNCHANGED <<validated, server, outcome, history, requests, detectorVars>>

\* GraphQLServerBuilder::max_batch_size
MaxBatchSize ==
    /\ Unvalidated
    /\ \E n \in BatchSizes :
          builder' = <<[builder[1] EXCEPT !.max_batch_size = n]>>
    /\ UNCHANGED <<validated, server, outcome, history, requests, detectorVars>>

\* GraphQLServerBuilder::skip_n1_validation
SkipN1Validation ==
    /\ Unvalidated
    /\ builder' = <<skip_n1_validation(builder[1])>>
    /\ history' = [history EXCEPT !.skip_called = TRUE]
    /\ UNCHANGED <<validated, server, outcome, requests, detectorVars>>

\* GraphQLServerBuilder::validate
Validate ==
    /\ Unvalidated
    /\ \E r \in {validate(builder[1])} :
          /\ outcome' = <<[r EXCEPT !.value = <<>>] @@ [op |-> "validate"]>>
          /\ validated' = r.value
    /\ UNCHANGED <<builder, server, history, requests, detectorVars>>

\* GraphQLServerBuilder::build
Build ==
    /\ Unvalidated
    /\ \E compiled \in BOOLEAN :
          \E r \in {build(builder[1], compiled)} :
              /\ outcome' = <<[r EXCEPT !.value = <<>>] @@ [op |-> "build"]>>
              /\ server' = r.value
    /\ UNCHANGED <<builder, validated, history, requests, detectorVars>>

\* ValidatedServerBuilder::build
ValidatedBuild ==
    /\ validated # <<>>
    /\ \E compiled \in BOOLEAN :
          \E r \in {validated_build(validated[1], compiled)} :
              /\ outcome' = <<[r EXCEPT !.value = <<>>, !.ran = outcome[1].ran \o @]
                               @@ [op |-> "validated.build"]>>
              /\ server' = r.value
    /\ validated' = <<>>
    /\ UNCHANGED <<builder, history, requests, detectorVars>>

BuilderInit ==
    /\ DetectorIdle
    /\ builder = <<NewBuilder>>
    /\ validated = <<>>
    /\ server = <<>>
    /\ outcome = <<>>
    /\ history = [sdl_calls |-> 0, registrations |-> 0, skip_called |-> FALSE]
    /\ requests = <<>>

BuilderNext ==
    \/ Sdl
    \/ RegisterResolver
    \/ RegisterBatchResolver
    \/ BatchDelay
    \/ MaxBatchSize
    \/ SkipN1Validation
    \/ Validate
    \/ Build
    \/ ValidatedBuild

BuilderSpec == BuilderInit /\ [][BuilderNext]_vars

----------------------------------------------------------------------------
(* The registry on its own: registrations and lookups on a TraitRegistry.  *)
(* Here history is the sequence of registrations made and outcome the      *)
(* Option of what the last lookup returned.                                *)

RegistryNames == {"getPosts", "getUser"}

Registration(ns, name, handle) == [ns |-> ns, name |-> name, handle |-> handle]

LookupOutcome(op, name, r) == [op |-> op, name |-> name, result |-> r]

registryFrame == <<config, pc, stack, visited, errors, result,
                   builder, validated, server, requests>>

\* TraitRegistry::register_resolver; the handle is a fresh Arc.
RegistryRegister ==
    /\ Len(history) < MaxRegistrations
    /\ \E n \in RegistryNames :
          /\ registry' = register_resolver(registry, n, Len(history) + 1)
          /\ history' = Append(history, Registration("plain", n, Len(history) + 1))
    /\ UNCHANGED <<outcome, registryFrame>>

\* TraitRegistry::register_batch_resolver
RegistryRegisterBatch ==
    /\ Len(history) < MaxRegistrations
    /\ \E n \in RegistryNames :
          /\ registry' = register_batch_resolver(registry, n, Len(history) + 1)
          /\ history' = Append(history, Registration("batch", n, Len(history) + 1))
    /\ UNCHANGED <<outcome, registryFrame>>

\* TraitRegistry::get_resolver
GetResolver ==
    /\ \E n \in RegistryNames :
          /\ outcome' = <<LookupOutcome("get_resolver", n, get_resolver(registry, n))>>
          /\ registry' = registry_after_get(registry, n)
    /\ UNCHANGED <<history, registryFrame>>

\* TraitRegistry::get_batch_resolver
GetBatchResolver ==
    /\ \E n \in RegistryNames :
          /\ outcome' = <<LookupOutcome("get_batch_resolver", n,
                                        get_batch_resolver(registry, n))>>
          /\ registry' = registry_after_get(registry, n)
    /\ UNCHANGED <<history, registryFrame>>

\* TraitRegistry::has_resolver
HasResolver ==
    /\ \E n \in RegistryNames :
          outcome' = <<LookupOutcome("has_resolver", n, has_resolver(registry, n))>>
    /\ UNCHANGED <<registry, history, registryFrame>>

\* TraitRegistry::has_batch_resolver
HasBatchResolver ==
    /\ \E n \in RegistryNames :
          outcome' = <<LookupOutcome("has_batch_resolver", n,
                                    has_batch_resolver(registry, n))>>
    /\ UNCHANGED <<registry, history, registryFrame>>

RegistryInit == DetectorIdle /\ ServerIdle

RegistryNext ==
    \/ RegistryRegister
    \/ RegistryRegisterBatch
    \/ GetResolver
    \/ GetBatchResolver
    \/ HasResolver
    \/ HasBatchResolver

RegistrySpec == RegistryInit /\ [][RegistryNext]_vars

----------------------------------------------------------------------------
(* Serving requests: server.rs and schema/field_resolver.rs                *)

\* The closure of create_trait_field: a batch key sends the lookup to the
\* batch namespace, its absence to the plain one.
create_trait_field(reg, name, batch_key) ==
    IF batch_key # <<>> THEN get_batch_resolver(reg, name)
    ELSE get_resolver(reg, name)

\* The closure of create_call_field.
create_call_field(reg, trait_name) == get_resolver(reg, trait_name)

\* create_field: the lookup made when the field is resolved.
create_field(reg, resolver_config) ==
    IF resolver_config.kind = "Trait"
    THEN create_trait_field(reg, resolver_config.name, resolver_config.batch_key)
    ELSE create_call_field(reg, resolver_config.trait_name)

\* The fields build_field hands to FieldResolverFactory.
ResolverFields(cfg) ==
    UNION {{<<t, i>> : i \in {j \in 1..Len(cfg.types[t].fields) :
                                cfg.types[t].fields[j].resolver # <<>>}}
           : t \in DOMAIN cfg.types}

\* async_graphql::Value of a parent object, and serde_json::Value of a key.
GqlNull == [v |-> "Null"]
GqlNumber(n) == [v |-> "Number", n |-> n]
GqlObject(fields) == [v |-> "Object", fields |-> fields]

JsonNull == [json |-> "Null"]

\* serde_json::to_value(&v).unwrap_or_default() on the scalars used here.
to_json_value(value) ==
    IF value.v = "Number" THEN [json |-> "Number", n |-> value.n] ELSE JsonNull

\* ResolverContext::new(field_name).with_parent(parent).with_path(path)
ResolverContext(field_name, parent, path) ==
    [field_name |-> field_name, parent_value |-> <<parent>>, path |-> path]

\* The key_value of the batch branch, lines 97-104.
key_value(parent, key_field) ==
    IF parent.v = "Object"
    THEN IF key_field \in DOMAIN parent.fields
         THEN to_json_value(parent.fields[key_field])
         ELSE JsonNull
    ELSE JsonNull

\* An invocation of a registered handler.
LoadCall(handle, ctx, keys) ==
    [call |-> "load", handle |-> handle, ctx |-> ctx, keys |-> keys, args |-> <<>>]
ResolveCall(handle, ctx, args) ==
    [call |-> "resolve", handle |-> handle, ctx |-> ctx, keys |-> <<>>, args |-> args]

\* The value create_call_field passes for one argument mapping; the requests
\* of the model carry no field arguments (ctx.args is empty), and the keys of
\* the parent objects are texts of one piece.
mapped_argument(mapping, parent) ==
    IF mapping.mapping = "ParentField"
    THEN IF /\ parent.v = "Object"
            /\ Len(mapping.field) = 1
            /\ mapping.field[1] \in DOMAIN parent.fields
         THEN parent.fields[mapping.field[1]] ELSE GqlNull
    ELSE IF mapping.mapping = "Argument" THEN GqlNull
    ELSE [v |-> "Json", json |-> mapping.json]

\* The handler invocations of the closure of create_trait_field.
trait_field_calls_mut(reg, name, batch_key, field_name, parent_type, parent) ==
    IF has_batch_resolver(reg, name)
    THEN <<LoadCall(get_batch_resolver(reg, name).handle[1],
                    ResolverContext(field_name, parent, <<parent_type, field_name>>),
                    <<key_value(parent, "id")>>)>>
    ELSE IF get_resolver(reg, name).ok
    THEN <<ResolveCall(get_resolver(reg, name).handle[1],
                       ResolverContext(field_name, parent, <<parent_type, field_name>>),
                       <<>>)>>
    ELSE <<>>

\* A loader that gathers the keys of all requests for the field.
trait_field_calls_agg(reg, name, batch_key, field_name, parent_type, parent) ==
    IF batch_key # <<>>
    THEN IF get_batch_resolver(reg, name).ok
         THEN <<LoadCall(get_batch_resolver(reg, name).handle[1],
                         ResolverContext(field_name, parent, <<parent_type, field_name>>),
                         [i \in 1..Len(requests) |->
                             key_value(requests[i].parent, batch_key[1])])>>
         ELSE <<>>
    ELSE IF get_resolver(reg, name).ok
    THEN <<ResolveCall(get_resolver(reg, name).handle[1],
                       ResolverContext(field_name, parent, <<parent_type, field_name>>),
                       <<>>)>>
    ELSE <<>>

trait_field_calls(reg, name, batch_key, field_name, parent_type, parent) ==
    IF batch_key # <<>>
    THEN IF get_batch_resolver(reg, name).ok
         THEN <<LoadCall(get_batch_resolver(reg, name).handle[1],
                         ResolverContext(field_name, parent, <<parent_type, field_name>>),
                         <<key_value(parent, batch_key[1])>>)>>
         ELSE <<>>
    ELSE IF get_resolver(reg, name).ok
    THEN <<ResolveCall(get_resolver(reg, name).handle[1],
                       ResolverContext(field_name, parent, <<parent_type, field_name>>),
                       <<>>)>>
    ELSE <<>>

\* The handler invocation of the closure of create_call_field.
call_field_calls(reg, trait_name, arg_mappings, field_name, parent_type, parent) ==
    IF get_resolver(reg, trait_name).ok
    THEN <<ResolveCall(get_resolver(reg, trait_name).handle[1],
                       ResolverContext(field_name, parent, <<parent_type, field_name>>),
                       [k \in DOMAIN arg_mappings |->
                           mapped_argument(arg_mappings[k], parent)])>>
    ELSE <<>>

field_calls(reg, resolver_config, field_name, parent_type, parent) ==
    IF resolver_config.kind = "Trait"
    THEN trait_field_calls(reg, resolver_config.name, resolver_config.batch_key,
                           field_name, parent_type, parent)
    ELSE call_field_calls(reg, resolver_config.trait_name, resolver_config.args,
                          field_name, parent_type, parent)

\* The resolver-backed fields a query can reach from type t, each with the
\* chain of names leading to it (root type name first); a chain enters a
\* type once.
RECURSIVE RoutesFrom(_, _, _, _)
RoutesFrom(cfg, t, path, seen) ==
    UNION {LET f == cfg.types[t].fields[i]
               inner == inner_type_name(f.field_type)
           IN  (IF f.resolver # <<>>
                THEN {[parent_type |-> t, index |-> i, route |-> Append(path, f.name)]}
                ELSE {})
               \cup (IF inner # <<>> /\ HasType(cfg, inner[1]) /\ inner[1] \notin seen
                     THEN RoutesFrom(cfg, inner[1], Append(path, f.name),
                                     seen \cup {inner[1]})
                     ELSE {})
           : i \in 1..Len(cfg.types[t].fields)}

Routes(cfg) ==
    IF cfg.query_type # <<>> /\ HasType(cfg, cfg.query_type[1])
    THEN RoutesFrom(cfg, cfg.query_type[1], <<cfg.query_type[1]>>,
                    {cfg.query_type[1]})
    ELSE {}

\* The parent values fields are resolved on: the root value is not an
\* object; below the root, a parent object with or without an id, or null.
ParentValues(cfg, t) ==
    IF cfg.query_type = <<t>> THEN {GqlNull}
    ELSE {GqlNull, GqlObject(<<>>), GqlObject([id |-> GqlNumber(1)]),
          GqlObject([id |-> GqlNumber(2)])}

ExecuteRequest(t, f, parent, route) ==
    [op |-> "execute", parent_type |-> t, field_name |-> f.name,
     name |-> resolver_name(f.resolver[1]), resolver |-> f.resolver,
     parent |-> parent, route |-> route,
     done |-> FALSE, result |-> <<>>, calls |-> <<>>]

LookupRequest(op, name, r) ==
    [op |-> op, parent_type |-> "", field_name |-> "", name |-> name,
     resolver |-> <<>>, parent |-> GqlNull, route |-> <<>>,
     done |-> TRUE, result |-> <<r>>, calls |-> <<>>]

\* GraphQLServer::execute / execute_sync: a request that will resolve a
\* resolver-backed field of the schema is in flight.
Execute ==
    /\ server # <<>>
    /\ Len(requests) < MaxRequests
    /\ \E r \in Routes(server[1].schema) :
          \E parent \in ParentValues(server[1].schema, r.parent_type) :
              requests' = Append(requests,
                  ExecuteRequest(r.parent_type,
                                 server[1].schema.types[r.parent_type].fields[r.index],
                                 parent, r.route))
    /\ UNCHANGED <<builder, validated, server, outcome, history, detectorVars>>

\* The field's closure runs: it looks its resolver up in the shared registry.
ResolveField ==
    /\ server # <<>>
    /\ \E i \in 1..Len(requests) :
          /\ requests[i].op = "execute"
          /\ ~requests[i].done
          /\ requests' = [requests EXCEPT
                 ![i].done = TRUE,
                 ![i].result = <<create_field(server[1].registry,
                                              requests[i].resolver[1])>>,
                 ![i].calls = field_calls(server[1].registry,
                                          requests[i].resolver[1],
                                          requests[i].field_name,
                                          requests[i].parent_type,
                                          requests[i].parent)]
          /\ server' = <<[server[1] EXCEPT !.registry =
                             registry_after_get(@, requests[i].name)]>>
    /\ UNCHANGED <<builder, validated, outcome, history, detectorVars>>

\* GraphQLServer::registry() followed by get_resolver or get_batch_resolver.
RegistryLookup ==
    /\ server # <<>>
    /\ Len(requests) < MaxRequests
    /\ \E n \in ResolverNames :
          /\ \/ requests' = Append(requests,
                     LookupRequest("get_resolver", n,
                                   get_resolver(server[1].registry, n)))
             \/ requests' = Append(requests,
                     LookupRequest("get_batch_resolver", n,
                                   get_batch_resolver(server[1].registry, n)))
          /\ server' = <<[server[1] EXCEPT !.registry = registry_after_get(@, n)]>>
    /\ UNCHANGED <<builder, validated, outcome, history, detectorVars>>

\* type User { id: ID!  profile: Profile @call(trait: "getPosts") }
FragUserCall ==
    <<TypeDef("User", "Object",
              <<FieldDefinition("id", NonNullNamed("ID"), <<>>),
                FieldDefinition("profile", Type(NamedBase("Profile"), TRUE),
                    <<ConstDirective("call",
                        <<[name |-> "trait", value |-> StringValue("getPosts")]>>)>>)>>)>>

ServingFragments == {FragQuery, FragUser, FragUserBatched, FragUserCall}

\* The schema texts of at most k parts.
RECURSIVE SdlTexts(_)
SdlTexts(k) ==
    IF k = 0 THEN {<<>>}
    ELSE SdlTexts(k - 1)
         \cup {Append(p, f) : p \in {q \in SdlTexts(k - 1) : Len(q) = k - 1},
                              f \in ServingFragments}

\* The registries left by exactly k registrations, the k-th handle being k.
RECURSIVE RegistriesAfter(_)
RegistriesAfter(k) ==
    IF k = 0 THEN {NewRegistry}
    ELSE UNION {{register_resolver(r, n, k), register_batch_resolver(r, n, k)}
                : r \in RegistriesAfter(k - 1), n \in ResolverNames}

\* batch_delay and max_batch_size left at their defaults, or both set.
ServingTunables == {<<DefaultBatchDelayMs, DefaultMaxBatchSize>>, <<5, 200>>}

\* A builder on which sdl(), the registrations, the tunables and possibly
\* skip_n1_validation() have been called.
ServingInit ==
    /\ DetectorIdle
    /\ \E parts \in SdlTexts(MaxSdlParts) \ {<<>>}, k \in 0..MaxRegistrations,
          n1 \in BOOLEAN :
          \E reg \in RegistriesAfter(k), tun \in ServingTunables :
              /\ builder = <<GraphQLServerBuilder(parts, reg, tun[1], tun[2], n1)>>
              /\ history = [sdl_calls |-> Len(parts), registrations |-> k,
                            skip_called |-> ~n1]
    /\ validated = <<>>
    /\ server = <<>>
    /\ outcome = <<>>
    /\ requests = <<>>

ServingNext ==
    \/ Build
    \/ Execute
    \/ ResolveField
    \/ RegistryLookup

ServingSpec == ServingInit /\ [][ServingNext]_vars

----------------------------------------------------------------------------
(* What the claims speak about, stated on the configuration itself.        *)

\* A field is list-shaped when its type, under an optional non-null
\* wrapper, is a list.
ListShaped(ft) ==
    \/ ft.kind = "List"
    \/ ft.kind = "NonNull" /\ ft.inner.kind = "List"

FieldsOf(cfg, t) == cfg.types[t].fields

\* All (type, index) pairs of declared fields.
DeclaredFields(cfg) ==
    UNION {{<<t, i>> : i \in 1..Len(FieldsOf(cfg, t))} : t \in DOMAIN cfg.types}

ResolverBacked(cfg, tf) == FieldsOf(cfg, tf[1])[tf[2]].resolver # <<>>

HasBatchKey(cfg, tf) ==
    LET r == FieldsOf(cfg, tf[1])[tf[2]].resolver[1]
    IN  r.kind = "Trait" /\ r.batch_key # <<>>

BoundName(cfg, tf) ==
    LET r == FieldsOf(cfg, tf[1])[tf[2]].resolver[1]
    IN  IF r.kind = "Trait" THEN r.name ELSE r.trait_name

BatchRegistered(cfg, reg, tf) == BoundName(cfg, tf) \in DOMAIN reg.batch_resolvers

Unbatched(cfg, reg, tf) ==
    /\ ResolverBacked(cfg, tf)
    /\ ~HasBatchKey(cfg, tf)
    /\ ~BatchRegistered(cfg, reg, tf)

\* The pairs <<t, l>> such that some chain of fields leads from the query
\* root type to type t through declared types, l telling whether a field of
\* the chain is list-shaped.  Chains may pass through a type more than once.
ReachStep(cfg, R) ==
    R \cup UNION {
        {<<inner_type_name(FieldsOf(cfg, x[1])[i].field_type)[1],
           x[2] \/ ListShaped(FieldsOf(cfg, x[1])[i].field_type)>>
           : i \in {j \in 1..Len(FieldsOf(cfg, x[1])) :
                      HasType(cfg, inner_type_name(
                                     FieldsOf(cfg, x[1])[j].field_type)[1])}}
        : x \in R}

RECURSIVE ReachFix(_, _)
ReachFix(cfg, R) ==
    LET N == ReachStep(cfg, R) IN IF N = R THEN R ELSE ReachFix(cfg, N)

Reach(cfg) ==
    IF cfg.query_type # <<>> /\ HasType(cfg, cfg.query_type[1])
    THEN ReachFix(cfg, {<<cfg.query_type[1], FALSE>>})
    ELSE {}

\* The visits of a depth-first walk that never passes through a type twice
\* on one path: one record per (path, field), with the list flag carried
\* along the path instead of being looked up again.
RECURSIVE VisitsFrom(_, _, _, _, _)
VisitsFrom(cfg, t, p, onPath, l) ==
    UNION {
        LET f == FieldsOf(cfg, t)[i]
            fp == Append(p, f.name)
            inner == inner_type_name(f.field_type)[1]
        IN  {[path |-> fp, parent_type |-> t, index |-> i, in_list |-> l]}
            \cup (IF HasType(cfg, inner) /\ inner \notin (onPath \cup {t})
                  THEN VisitsFrom(cfg, inner, fp, onPath \cup {t},
                                  l \/ ListShaped(f.field_type))
                  ELSE {})
        : i \in 1..Len(FieldsOf(cfg, t))}

Visits(cfg) ==
    IF cfg.query_type # <<>> /\ HasType(cfg, cfg.query_type[1])
    THEN VisitsFrom(cfg, cfg.query_type[1], <<cfg.query_type[1]>>, {}, FALSE)
    ELSE {}

ViolatingVisits(cfg, reg) ==
    {v \in Visits(cfg) : v.in_list /\ Unbatched(cfg, reg, <<v.parent_type, v.index>>)}

\* The list detect returned (empty for Ok).
Returned == IF result = <<>> THEN <<>> ELSE result[1].errors

EntriesFor(es, cfg, tf) ==
    {k \in 1..Len(es) : /\ es[k].parent_type = tf[1]
                        /\ es[k].field_name = FieldsOf(cfg, tf[1])[tf[2]].name}

Reported(es, cfg, tf) == EntriesFor(es, cfg, tf) # {}

Done == pc = "done"

----------------------------------------------------------------------------
(* Claims about detect.                                                    *)

\* C1 (as stated): when detect has returned, every resolver-backed field
\* that has neither a batch key nor a registered batch resolver and that
\* some chain of fields from the query root reaches after a list-shaped
\* field (chains through cyclic type graphs included) has an entry in the
\* returned violation list, and the result is Err.
C1_AsStated ==
    Done =>
        \A tf \in DeclaredFields(config) :
            (Unbatched(config, registry, tf) /\ <<tf[1], TRUE>> \in Reach(config))
                => (~result[1].ok /\ Reported(Returned, config, tf))

\* C2: detect never reports a resolver-backed field whose owning type is
\* reached from the query root only by chains without a list-shaped field,
\* whatever the field's own batching state.
C2_NonListNeverReported ==
    Done =>
        \A tf \in DeclaredFields(config) :
            (ResolverBacked(config, tf) /\ <<tf[1], TRUE>> \notin Reach(config))
                => ~Reported(Returned, config, tf)

\* C2 witness: detect returned Ok although an unbatched, list-shaped,
\* resolver-backed field sits on a type other than the root that is reached
\* through non-list fields only.
C2_Witness ==
    /\ Done
    /\ result[1].ok
    /\ config.query_type # <<>>
    /\ \E tf \in DeclaredFields(config) :
          /\ Unbatched(config, registry, tf)
          /\ ListShaped(FieldsOf(config, tf[1])[tf[2]].field_type)
          /\ tf[1] # config.query_type[1]
          /\ <<tf[1], FALSE>> \in Reach(config)
          /\ <<tf[1], TRUE>> \notin Reach(config)

\* C3: detect never reports a field bound by the Trait variant with a
\* batch key, whatever the registry holds.
C3_BatchKeyNeverReported ==
    Done =>
        \A tf \in DeclaredFields(config) :
            (ResolverBacked(config, tf) /\ HasBatchKey(config, tf))
                => ~Reported(Returned, config, tf)

\* C3 witness: a field with a batch key is visited under a list-shaped
\* ancestor, the registry is empty, and detect returned without reporting it.
C3_Witness ==
    /\ Done
    /\ registry = NewRegistry
    /\ \E v \in Visits(config) :
          /\ v.in_list
          /\ ResolverBacked(config, <<v.parent_type, v.index>>)
          /\ HasBatchKey(config, <<v.parent_type, v.index>>)
          /\ ~Reported(Returned, config, <<v.parent_type, v.index>>)

\* C4: detect never reports a resolver-backed field (Trait without batch key,
\* or Call) whose resolver name has a batch resolver in the registry.
C4_RegisteredBatchNeverReported ==
    Done =>
        \A tf \in DeclaredFields(config) :
            (ResolverBacked(config, tf) /\ BatchRegistered(config, registry, tf))
                => ~Reported(Returned, config, tf)

\* C4 witness: a Call-bound field is visited under a list-shaped ancestor,
\* only the batch namespace holds its name, and detect did not report it.
C4_Witness ==
    /\ Done
    /\ \E v \in Visits(config) :
          /\ v.in_list
          /\ ResolverBacked(config, <<v.parent_type, v.index>>)
          /\ FieldsOf(config, v.parent_type)[v.index].resolver[1].kind = "Call"
          /\ BatchRegistered(config, registry, <<v.parent_type, v.index>>)
          /\ ~Reported(Returned, config, <<v.parent_type, v.index>>)

\* C5 (as stated): an unbatched resolver-backed field that the traversal
\* visits under a list-shaped ancestor has exactly one entry in the
\* returned list, also when its type is reached by several field paths.
C5_AsStated ==
    Done =>
        \A v \in ViolatingVisits(config, registry) :
            Cardinality(EntriesFor(Returned, config, <<v.parent_type, v.index>>)) = 1

\* C5 (amended): such a field has exactly one entry for every cycle-free
\* path of the traversal that reaches it under a list-shaped ancestor; the
\* entry carries that path, the field's name and its owning type.
C5_OncePerPath ==
    Done =>
        /\ \A v \in ViolatingVisits(config, registry) :
              /\ Cardinality({k \in 1..Len(Returned) : Returned[k].path = v.path}) = 1
              /\ \A k \in 1..Len(Returned) :
                    Returned[k].path = v.path =>
                        /\ Returned[k].field_name
                              = FieldsOf(config, v.parent_type)[v.index].name
                        /\ Returned[k].parent_type = v.parent_type
        /\ \A tf \in DeclaredFields(config) :
              Unbatched(config, registry, tf) =>
                  Cardinality(EntriesFor(Returned, config, tf))
                      = Cardinality({v \in ViolatingVisits(config, registry) :
                                        <<v.parent_type, v.index>> = tf})

\* C5 witness: one field is reported twice, once for each of two paths.
C5_Witness ==
    /\ Done
    /\ \E tf \in DeclaredFields(config) :
          /\ Unbatched(config, registry, tf)
          /\ Cardinality(EntriesFor(Returned, config, tf)) = 2

\* C6: detect returns Ok exactly when the traversal finds no violation;
\* otherwise it returns Err with a non-empty list holding one entry for
\* every violation of the traversal, not just the first.
C6_OkIffNoViolation ==
    Done =>
        /\ result[1].ok <=> (ViolatingVisits(config, registry) = {})
        /\ result[1].ok => result[1].errors = <<>>
        /\ ~result[1].ok =>
              /\ result[1].errors # <<>>
              /\ Len(result[1].errors)
                    = Cardinality(ViolatingVisits(config, registry))
              /\ {result[1].errors[k].path : k \in 1..Len(result[1].errors)}
                    = {v.path : v \in ViolatingVisits(config, registry)}

\* C6 witness: detect returned Err with entries for two different fields.
C6_Witness ==
    /\ Done
    /\ ~result[1].ok
    /\ \E j, k \in 1..Len(result[1].errors) :
          <<result[1].errors[j].parent_type, result[1].errors[j].field_name>>
            # <<result[1].errors[k].parent_type, result[1].errors[k].field_name>>

NumTypes(cfg) == Cardinality(DOMAIN cfg.types)

\* C7 (as stated): the number of nested traverse calls never exceeds the
\* number of types of the configuration.
C7_AsStated == Len(stack) <= NumTypes(config)

\* C7 (amended): detect terminates on every configuration, and the number
\* of nested traverse calls never exceeds the number of types plus one
\* (the call that meets the cycle guard, or a root that is not a declared
\* type, returns at once).
C7_TerminatesBounded ==
    /\ <>(pc = "done")
    /\ [](Len(stack) <= NumTypes(config) + 1)

\* C7 witness: detect has returned on a configuration in which a type
\* reached from the root has a field of its own type.
C7_Witness ==
    /\ Done
    /\ \E tf \in DeclaredFields(config) :
          /\ inner_type_name(FieldsOf(config, tf[1])[tf[2]].field_type)[1] = tf[1]
          /\ <<tf[1], FALSE>> \in Reach(config)

----------------------------------------------------------------------------
(* Claims about the server builder.                                        *)

\* validate() or build() has been called on the builder.
Called == outcome # <<>> /\ outcome[1].op \in {"validate", "build"}

FailedWith(type) == outcome[1].error # <<>> /\ outcome[1].error[1].type = type

\* The schema text the builder held when it was consumed, and its parse.
JoinedSdl == Join(builder[1].sdl_parts)

ParsedOk == builder[1].sdl_parts # <<>> /\ parse_sdl(JoinedSdl).ok

ParsedConfig == parse_sdl(JoinedSdl).config[1]

\* The detector run on its own agrees with the stepwise traversal.
DetectAgrees == Done => result[1] = detect(config, registry)

\* C8: when skip_n1_validation() was not called and the schema text parses,
\* validate() (alone or inside build()) fails with N1Detection exactly when
\* the detector returns violations for the parsed configuration and the
\* registry the builder had accumulated; the error then carries the
\* detector's list unchanged and neither a ValidatedServerBuilder nor a
\* server exists.
C8_N1DetectionIffViolations ==
    (Called /\ ~history.skip_called /\ ParsedOk) =>
        \E d \in {detect(ParsedConfig, builder[1].registry)} :
            /\ FailedWith("N1Detection") <=> ~d.ok
            /\ ~d.ok <=> ViolatingVisits(ParsedConfig, builder[1].registry) # {}
            /\ ~d.ok =>
                  /\ outcome[1].error[1].errors = d.errors
                  /\ Len(d.errors)
                        = Cardinality(ViolatingVisits(ParsedConfig,
                                                      builder[1].registry))
                  /\ validated = <<>>
                  /\ server = <<>>

\* C8 witness: validate() on a builder with a registered resolver failed
\* with N1Detection carrying two violations, and nothing was produced.
C8_Witness ==
    /\ Called
    /\ outcome[1].op = "validate"
    /\ ~history.skip_called
    /\ DOMAIN builder[1].registry.resolvers # {}
    /\ FailedWith("N1Detection")
    /\ Len(outcome[1].error[1].errors) = 2
    /\ validated = <<>>
    /\ server = <<>>

\* C9: once skip_n1_validation() has been called the flag stays off
\* whatever is called afterwards, validate() does not run the detector and
\* never fails with N1Detection, and a schema that parses reaches Validated,
\* and Built unless schema compilation fails.
C9_SkipNeverDetects ==
    history.skip_called =>
        /\ ~builder[1].validate_n1
        /\ outcome # <<>> =>
              /\ \A k \in 1..Len(outcome[1].ran) : outcome[1].ran[k] # "detect"
              /\ ~FailedWith("N1Detection")
        /\ (Called /\ ParsedOk) =>
              IF outcome[1].op = "validate"
              THEN outcome[1].error = <<>> /\ validated # <<>>
              ELSE \/ outcome[1].error = <<>> /\ server # <<>>
                   \/ FailedWith("Resolver") /\ server = <<>>

\* C9 witness: build() after skip_n1_validation() produced a server from a
\* schema whose unbatched resolver-backed field sits in list context.
C9_Witness ==
    /\ Called
    /\ outcome[1].op = "build"
    /\ history.skip_called
    /\ ParsedOk
    /\ ViolatingVisits(ParsedConfig, builder[1].registry) # {}
    /\ outcome[1].error = <<>>
    /\ server # <<>>

\* C10: validate() or build() on a builder on which sdl() was never called
\* fails with ServerError::Config without calling the parser or the
\* detector and produces nothing, whatever was registered and whatever the
\* tunables and the skip flag are.
C10_NoSdlConfigError ==
    (Called /\ history.sdl_calls = 0) =>
        /\ outcome[1].error = <<ConfigError("SDL not provided")>>
        /\ outcome[1].ran = <<>>
        /\ validated = <<>>
        /\ server = <<>>

\* C10 witness: build() failed with Config on a builder without schema text
\* that had resolvers in both namespaces, changed tunables and the skip
\* flag set.
C10_Witness ==
    /\ Called
    /\ outcome[1].op = "build"
    /\ history.sdl_calls = 0
    /\ FailedWith("Config")
    /\ history.skip_called
    /\ DOMAIN builder[1].registry.resolvers # {}
    /\ DOMAIN builder[1].registry.batch_resolvers # {}
    /\ builder[1].batch_delay # DefaultBatchDelayMs
    /\ builder[1].max_batch_size # DefaultMaxBatchSize

\* The joined schema text is rejected by the grammar.
InvalidText(sdl) == \E i \in 1..Len(sdl) : sdl[i].def = "Invalid"

\* C11: when the joined schema text is not syntactically valid, parse_sdl
\* returns an error with a non-empty message and no configuration, and
\* validate()/build() fail with ServerError::Parse carrying that message,
\* without running the detector and without producing a
\* ValidatedServerBuilder or a server.
C11_InvalidTextParseError ==
    (Called /\ builder[1].sdl_parts # <<>> /\ InvalidText(JoinedSdl)) =>
        \E parsed \in {parse_sdl(JoinedSdl)} :
            /\ ~parsed.ok
            /\ parsed.config = <<>>
            /\ parsed.error # <<>>
            /\ outcome[1].error = <<ParseServerError(parsed.error)>>
            /\ outcome[1].ran = <<"parse_sdl">>
            /\ validated = <<>>
            /\ server = <<>>

\* C11 witness: build() failed with Parse on text whose first part is a
\* well-formed type definition and whose second part is not valid.
C11_Witness ==
    /\ Called
    /\ outcome[1].op = "build"
    /\ Len(builder[1].sdl_parts) = 2
    /\ ~InvalidText(builder[1].sdl_parts[1])
    /\ InvalidText(builder[1].sdl_parts[2])
    /\ FailedWith("Parse")
    /\ server = <<>>

\* A GraphQLServer exists.
Built == server # <<>>

\* C12: in every state with a server, schema text was supplied and parsed,
\* the server holds the parsed configuration with the builder's registry and
\* tunables, which are exactly what validate() returns for that builder,
\* and the detector returns Ok for them unless skip_n1_validation() was
\* called; the calls ran in the order parse, detection, compilation.
\* validate() followed by ValidatedServerBuilder::build() ends as build()
\* on the same builder ends, and a failed validate() as build() fails.
C12_BuiltOnlyThroughValidated ==
    /\ Built =>
          /\ history.sdl_calls > 0
          /\ ParsedOk
          /\ server[1].schema = ParsedConfig
          /\ server[1].registry = builder[1].registry
          /\ validate(builder[1]).value
                = <<ValidatedServerBuilder(server[1].schema, server[1].registry,
                                           server[1].batch_delay,
                                           server[1].max_batch_size)>>
          /\ ~history.skip_called =>
                /\ detect(server[1].schema, server[1].registry).ok
                /\ outcome[1].ran = <<"parse_sdl", "detect", "SchemaBuilder::build">>
          /\ history.skip_called =>
                outcome[1].ran = <<"parse_sdl", "SchemaBuilder::build">>
    /\ (outcome # <<>> /\ outcome[1].op = "validated.build") =>
          \E compiled \in BOOLEAN :
              \E r \in {build(builder[1], compiled)} :
                  /\ r.error = outcome[1].error
                  /\ r.value = server
                  /\ r.ran = outcome[1].ran
    /\ (outcome # <<>> /\ outcome[1].op = "validate" /\ outcome[1].error # <<>>) =>
          \A compiled \in BOOLEAN :
              \E r \in {build(builder[1], compiled)} :
                  /\ r.error = outcome[1].error
                  /\ r.value = <<>>
                  /\ r.ran = outcome[1].ran

\* C12 witness: a server obtained by ValidatedServerBuilder::build() after
\* a validate() that ran the detector on a schema with a resolver-backed
\* field that is batched.
C12_Witness ==
    /\ Built
    /\ outcome[1].op = "validated.build"
    /\ ~history.skip_called
    /\ \E tf \in DeclaredFields(server[1].schema) :
          ResolverBacked(server[1].schema, tf)

\* C13: once a server exists, its registry holds the names and handles the
\* builder had registered, in both namespaces, and no step taken on the
\* server (a request starting, a field resolving its resolver, a lookup
\* through registry()), in any interleaving, adds, removes or replaces an
\* entry.
C13_RegistryFrozenAfterBuilt ==
    /\ [](Built => server[1].registry = builder[1].registry)
    /\ [][Built => (Built' /\ server'[1].registry = server[1].registry)]_vars

\* C13 witness: with resolvers in both namespaces, a lookup through
\* registry() completed while an earlier request was still in flight.
C13_Witness ==
    /\ Built
    /\ DOMAIN server[1].registry.resolvers # {}
    /\ DOMAIN server[1].registry.batch_resolvers # {}
    /\ Len(requests) = 2
    /\ requests[1].op = "execute" /\ ~requests[1].done
    /\ requests[2].op = "get_resolver" /\ requests[2].done

----------------------------------------------------------------------------
(* Claims about the registry.                                              *)

\* The positions of the registrations made under name n in namespace ns.
RegisteredAt(ns, n) ==
    {k \in 1..Len(history) : history[k].ns = ns /\ history[k].name = n}

Latest(S) == CHOOSE k \in S : \A j \in S : j <= k

NamesIn(ns) == {history[k].name : k \in {j \in 1..Len(history) : history[j].ns = ns}}

\* C14: after any sequence of registrations, get_resolver(n) and
\* get_batch_resolver(n) return the handle of the most recent registration
\* under n in their namespace, and each namespace holds exactly one entry
\* for every name registered in it, however often the name was used.
C14_LastRegistrationWins ==
    /\ \A n \in RegistryNames :
          /\ RegisteredAt("plain", n) # {} =>
                get_resolver(registry, n)
                    = Found(history[Latest(RegisteredAt("plain", n))].handle)
          /\ RegisteredAt("batch", n) # {} =>
                get_batch_resolver(registry, n)
                    = Found(history[Latest(RegisteredAt("batch", n))].handle)
    /\ DOMAIN registry.resolvers = NamesIn("plain")
    /\ DOMAIN registry.batch_resolvers = NamesIn("batch")
    /\ Cardinality(DOMAIN registry.resolvers) + Cardinality(DOMAIN registry.batch_resolvers)
          <= Len(history)

\* C14 witness: one name was registered twice in the plain namespace and
\* get_resolver returned the second handle.
C14_Witness ==
    /\ \E n \in RegistryNames :
          /\ Cardinality(RegisteredAt("plain", n)) = 2
          /\ outcome = <<LookupOutcome("get_resolver", n, Found(2))>>
    /\ Cardinality(DOMAIN registry.resolvers) = 1

\* The registry obtained from a new one by the registrations of namespace
\* ns alone, in the order they were made.
RECURSIVE ReplayOnly(_, _)
ReplayOnly(ns, k) ==
    IF k = 0 THEN NewRegistry
    ELSE IF history[k].ns # ns THEN ReplayOnly(ns, k - 1)
    ELSE IF ns = "plain"
    THEN register_resolver(ReplayOnly(ns, k - 1), history[k].name, history[k].handle)
    ELSE register_batch_resolver(ReplayOnly(ns, k - 1), history[k].name,
                                 history[k].handle)

\* C15: register_resolver leaves the batch namespace as it was and
\* register_batch_resolver the plain one; what has_resolver/get_resolver
\* answer is what they answer after the plain registrations alone, and
\* what has_batch_resolver/get_batch_resolver answer is what they answer
\* after the batch registrations alone, so one name can be held in both.
C15_NamespacesIndependent ==
    /\ [](\A n \in RegistryNames :
            /\ has_resolver(registry, n)
                  = has_resolver(ReplayOnly("plain", Len(history)), n)
            /\ get_resolver(registry, n)
                  = get_resolver(ReplayOnly("plain", Len(history)), n)
            /\ has_batch_resolver(registry, n)
                  = has_batch_resolver(ReplayOnly("batch", Len(history)), n)
            /\ get_batch_resolver(registry, n)
                  = get_batch_resolver(ReplayOnly("batch", Len(history)), n))
    /\ [][Len(history') > Len(history) =>
            IF history'[Len(history')].ns = "plain"
            THEN registry'.batch_resolvers = registry.batch_resolvers
            ELSE registry'.resolvers = registry.resolvers]_vars

\* C15 witness: one name is held in both namespaces under different
\* handles and get_batch_resolver returned the batch one.
C15_Witness ==
    \E n \in RegistryNames :
        /\ has_resolver(registry, n)
        /\ has_batch_resolver(registry, n)
        /\ registry.resolvers[n] # registry.batch_resolvers[n]
        /\ outcome = <<LookupOutcome("get_batch_resolver", n,
                                     Found(registry.batch_resolvers[n]))>>

\* C16: after any sequence of registrations get_resolver(n) is Ok exactly
\* when has_resolver(n) holds, which is exactly when a plain resolver named
\* n was registered, and otherwise it is NotFound carrying n; likewise for
\* get_batch_resolver and has_batch_resolver.  A lookup always returns and
\* leaves the registry as it was.
C16_LookupOkIffRegistered ==
    /\ [](\A n \in RegistryNames :
            /\ get_resolver(registry, n).ok <=> has_resolver(registry, n)
            /\ has_resolver(registry, n) <=> RegisteredAt("plain", n) # {}
            /\ ~has_resolver(registry, n) =>
                  get_resolver(registry, n)
                      = [ok |-> FALSE, handle |-> <<>>,
                         error |-> <<[type |-> "NotFound", name |-> n]>>]
            /\ get_batch_resolver(registry, n).ok <=> has_batch_resolver(registry, n)
            /\ has_batch_resolver(registry, n) <=> RegisteredAt("batch", n) # {}
            /\ ~has_batch_resolver(registry, n) =>
                  get_batch_resolver(registry, n)
                      = [ok |-> FALSE, handle |-> <<>>,
                         error |-> <<[type |-> "NotFound", name |-> n]>>])
    /\ [][history' = history => (registry' = registry /\ outcome' # <<>>)]_vars

\* C16 witness: get_resolver(n) returned NotFound carrying n although a
\* batch resolver named n and a plain resolver of another name were
\* registered.
C16_Witness ==
    \E n \in RegistryNames :
        /\ ~has_resolver(registry, n)
        /\ has_batch_resolver(registry, n)
        /\ DOMAIN registry.resolvers # {}
        /\ outcome = <<LookupOutcome("get_resolver", n,
                          [ok |-> FALSE, handle |-> <<>>,
                           error |-> <<[type |-> "NotFound", name |-> n]>>])>>

----------------------------------------------------------------------------
(* Claims about resolver names that the registry does not hold.            *)

\* The namespace the closure of a field consults.
ConsultedNames(reg, rc) ==
    IF rc.kind = "Trait" /\ rc.batch_key # <<>>
    THEN DOMAIN reg.batch_resolvers
    ELSE DOMAIN reg.resolvers

\* The builder with its plain namespace emptied.
WithoutPlain(b) == [b EXCEPT !.registry.resolvers = <<>>]

\* C17: validate()/build() fail only with Config, Parse, N1Detection or
\* the schema compilation's Execution error, and with the same error
\* whether or not the plain namespace holds the names the directives use:
\* a name missing from the registry never fails the build.  A field whose
\* resolver name is missing from the namespace its closure consults fails
\* when it is resolved, with NotFound carrying that name.
C17_MissingResolverFailsAtRequest ==
    /\ Called =>
          /\ outcome[1].error # <<>> =>
                \/ FailedWith("Config")
                \/ FailedWith("Parse")
                \/ FailedWith("N1Detection")
                \/ outcome[1].error = <<ResolverServerError("Execution")>>
          /\ FailedWith("N1Detection") =>
                ViolatingVisits(ParsedConfig, builder[1].registry) # {}
          /\ \E compiled \in BOOLEAN :
                build(WithoutPlain(builder[1]), compiled).error = outcome[1].error
    /\ \A i \in 1..Len(requests) :
          (requests[i].op = "execute" /\ requests[i].done) =>
              IF requests[i].name
                    \in ConsultedNames(server[1].registry, requests[i].resolver[1])
              THEN requests[i].result[1].ok
              ELSE requests[i].result
                      = <<[ok |-> FALSE, handle |-> <<>>,
                           error |-> <<[type |-> "NotFound",
                                        name |-> requests[i].name]>>]>>

\* C17 witness: with an empty registry and detection not skipped, build()
\* produced a server from a schema whose field names a resolver, and
\* resolving that field failed with NotFound.
C17_Witness ==
    /\ Built
    /\ ~history.skip_called
    /\ server[1].registry = NewRegistry
    /\ \E i \in 1..Len(requests) :
          /\ requests[i].op = "execute"
          /\ requests[i].done
          /\ ~requests[i].result[1].ok
          /\ requests[i].result[1].error[1].name = requests[i].name

----------------------------------------------------------------------------
(* The parser applied to schema documents: config/parser.rs                *)

MaxDirectives == 2
MaxArgs == 2
MaxTypeDefs == 2

DirectiveArgument(n, v) == [name |-> n, value |-> v]

SeqsUpTo(S, n) == UNION {[1..k -> S] : k \in 0..n}

\* Directives a field can carry, with and without their string argument.
DirectiveChoices ==
    {ConstDirective("call", <<DirectiveArgument("trait", StringValue("getUser"))>>),
     ConstDirective("call", <<>>),
     ConstDirective("resolver", <<DirectiveArgument("name", StringValue("getPosts"))>>),
     ConstDirective("resolver", <<DirectiveArgument("name", NumberValue(1))>>),
     ConstDirective("trait", <<DirectiveArgument("name", StringValue("getPosts"))>>),
     ConstDirective("batchKey", <<DirectiveArgument("field", StringValue("id"))>>),
     ConstDirective("batchKey", <<>>)}

\* type Query { f: String <directives> }
FieldDocument(ds) ==
    <<TypeDef("Query", "Object",
              <<FieldDefinition("f", Type(NamedBase("String"), TRUE), ds)>>)>>

DirectiveDocuments ==
    {FieldDocument(ds) : ds \in SeqsUpTo(DirectiveChoices, MaxDirectives)}

\* Values of the entries of an args object.
ArgValues ==
    {StringValue(<<"$parent.", "id">>), StringValue(<<"$arg.", "id">>),
     StringValue(<<"id">>), StringValue(<<>>), StringValue(<<"$parent.">>),
     StringValue(<<"$arg.", "$parent.", "id">>), StringValue(<<"$parent", "id">>),
     NumberValue(1), BooleanValue(TRUE), NullValue, EnumValue("ID"),
     ListValue(<<StringValue(<<"$parent.", "id">>)>>)}

ArgKeys == <<"a", "b", "c">>

ArgEntries ==
    UNION {{[i \in 1..k |-> DirectiveArgument(ArgKeys[i], f[i])] :
               f \in [1..k -> ArgValues]} : k \in 0..MaxArgs}

\* type Query { f: String @call(trait: "getUser", args: <value>) }
CallDocument(args) ==
    FieldDocument(<<ConstDirective("call",
        <<DirectiveArgument("trait", StringValue("getUser")),
          DirectiveArgument("args", args)>>)>>)

CallDocuments ==
    {CallDocument(ObjectValue(es)) : es \in ArgEntries}
    \cup {CallDocument(StringValue(<<"$parent.", "id">>))}

IdField == <<FieldDefinition("id", Type(NamedBase("ID"), FALSE), <<>>)>>

TypeDefChoices ==
    {TypeDef("Query", "Object", IdField), TypeDef("Query", "Interface", IdField),
     TypeDef("Query", "Enum", <<>>), TypeDef("Mutation", "Object", IdField),
     TypeDef("Mutation", "InputObject", <<>>), TypeDef("Root", "Object", IdField),
     TypeDef("Root", "Union", <<>>), TypeDef("Root", "Scalar", <<>>),
     TypeDef("__Schema", "Object", IdField), DirectiveDef("resolver")}

SchemaChoices ==
    {SchemaDef(<<"Root">>, <<>>), SchemaDef(<<>>, <<"Root">>),
     SchemaDef(<<"Root">>, <<"Mutation">>), SchemaDef(<<"Query">>, <<"Root">>)}

\* Type definitions alone, after a schema block, and before one.
RootDocuments ==
    LET types == SeqsUpTo(TypeDefChoices, MaxTypeDefs)
    IN  types
        \cup {<<s>> \o ts : s \in SchemaChoices, ts \in types}
        \cup {ts \o <<s>> : s \in SchemaChoices, ts \in types}

Documents == DirectiveDocuments \cup CallDocuments \cup RootDocuments

\* parse_sdl on the document at hand.
ParseSdl ==
    /\ outcome = <<>>
    /\ outcome' = <<parse_sdl(history.document)>>
    /\ UNCHANGED <<history, registry, registryFrame>>

ParserInit ==
    /\ DetectorIdle
    /\ builder = <<>>
    /\ validated = <<>>
    /\ server = <<>>
    /\ outcome = <<>>
    /\ requests = <<>>
    /\ \E doc \in Documents : history = [document |-> doc]

ParserNext == ParseSdl

ParserSpec == ParserInit /\ [][ParserNext]_vars

----------------------------------------------------------------------------
(* Claims about the parser                                                 *)

Parsed == outcome # <<>> /\ outcome[1].ok

\* The definition a key of the type map was built from: the last object or
\* interface definition of that name in the document.
SourceTypeDef(doc, t) ==
    doc[CHOOSE i \in 1..Len(doc) :
          /\ doc[i].def = "Type" /\ doc[i].name = t
          /\ doc[i].kind \in {"Object", "Interface"}
          /\ \A j \in (i + 1)..Len(doc) :
                ~(doc[j].def = "Type" /\ doc[j].name = t
                  /\ doc[j].kind \in {"Object", "Interface"})]

\* The fields of the parsed configuration, as <<type name, index>>.
ParsedFields ==
    UNION {{<<t, i>> : i \in 1..Len(outcome[1].config[1].types[t].fields)} :
              t \in DOMAIN outcome[1].config[1].types}

DirectivesOf(p) == SourceTypeDef(history.document, p[1]).fields[p[2]].directives
ResolverOf(p) == outcome[1].config[1].types[p[1]].fields[p[2]].resolver

Present(ds, name) == \E i \in 1..Len(ds) : ds[i].name = name

\* The field argument of the batchKey directive among ds, as an Option.
BatchKeyField(ds) ==
    IF FirstNamed(ds, "batchKey") = <<>> THEN <<>>
    ELSE LET a == FirstNamed(FirstNamed(ds, "batchKey")[1].arguments, "field")
         IN  IF a # <<>> /\ a[1].value.kind = "String" THEN <<a[1].value.s>> ELSE <<>>

\* C18 (as stated): a field carrying a call directive gets a Call resolver;
\* otherwise a field carrying a resolver directive or its alias trait gets a
\* Trait resolver whose batch_key is the field argument of a sibling batchKey
\* directive (None without one); a field with neither has no resolver.
C18_AsStated ==
    Parsed =>
        \A p \in ParsedFields :
            IF Present(DirectivesOf(p), "call")
            THEN ResolverOf(p) # <<>> /\ ResolverOf(p)[1].kind = "Call"
            ELSE IF Present(DirectivesOf(p), "resolver")
                    \/ Present(DirectivesOf(p), "trait")
            THEN /\ ResolverOf(p) # <<>>
                 /\ ResolverOf(p)[1].kind = "Trait"
                 /\ ResolverOf(p)[1].batch_key = BatchKeyField(DirectivesOf(p))
            ELSE ResolverOf(p) = <<>>

\* The same for documents whose directives all carry their string argument
\* and use only the names the parser of src/ knows: this part holds.
WellFormed(ds) ==
    \A i \in 1..Len(ds) :
        /\ ds[i].name \in {"call", "resolver", "batchKey"}
        /\ ds[i].name = "call" => get_string_argument(ds[i], "trait") # <<>>
        /\ ds[i].name = "resolver" => get_string_argument(ds[i], "name") # <<>>
        /\ ds[i].name = "batchKey" => get_string_argument(ds[i], "field") # <<>>

ExtractionWellFormed ==
    Parsed =>
        \A p \in ParsedFields :
            WellFormed(DirectivesOf(p)) =>
                IF Present(DirectivesOf(p), "call")
                THEN ResolverOf(p) # <<>> /\ ResolverOf(p)[1].kind = "Call"
                ELSE IF Present(DirectivesOf(p), "resolver")
                THEN /\ ResolverOf(p) # <<>>
                     /\ ResolverOf(p)[1].kind = "Trait"
                     /\ ResolverOf(p)[1].batch_key = BatchKeyField(DirectivesOf(p))
                ELSE ResolverOf(p) = <<>>

\* A field whose only directive is @trait(name: "getPosts") and that was
\* parsed without a resolver.
TraitAliasIgnored ==
    /\ Parsed
    /\ history.document =
          FieldDocument(<<ConstDirective("trait",
              <<DirectiveArgument("name", StringValue("getPosts"))>>)>>)
    /\ ResolverOf(<<"Query", 1>>) = <<>>

\* The entries of the args object of the call directive among ds (empty when
\* the directive has no args argument or it is not an object).
ArgsObject(ds) ==
    LET a == FirstNamed(FirstNamed(ds, "call")[1].arguments, "args")
    IN  IF a # <<>> /\ a[1].value.kind = "Object" THEN a[1].value.entries ELSE <<>>

\* The mapping the rule assigns to one value.
ExpectedMapping(v) ==
    IF v.kind = "String" /\ v.s # <<>> /\ Head(v.s) = "$parent."
    THEN ParentField(Tail(v.s))
    ELSE IF v.kind = "String" /\ v.s # <<>> /\ Head(v.s) = "$arg."
    THEN Argument(Tail(v.s))
    ELSE Literal(const_value_to_json(v))

\* C19: the args map of a Call resolver has exactly the keys of the call
\* directive's args object, and each key holds the one mapping its value
\* calls for: ParentField(rest) for a string starting with "$parent.",
\* otherwise Argument(rest) for a string starting with "$arg.", otherwise
\* Literal(value); no entry is dropped.
C19_ArgsMappedByPrefix ==
    Parsed =>
        \A p \in ParsedFields :
            (ResolverOf(p) # <<>> /\ ResolverOf(p)[1].kind = "Call") =>
                /\ DOMAIN ResolverOf(p)[1].args =
                      {ArgsObject(DirectivesOf(p))[i].name :
                          i \in 1..Len(ArgsObject(DirectivesOf(p)))}
                /\ \A i \in 1..Len(ArgsObject(DirectivesOf(p))) :
                      ResolverOf(p)[1].args[ArgsObject(DirectivesOf(p))[i].name] =
                          ExpectedMapping(ArgsObject(DirectivesOf(p))[i].value)

C19_Witness ==
    /\ Parsed
    /\ history.document =
          CallDocument(ObjectValue(
              <<DirectiveArgument("a", StringValue(<<"$arg.", "$parent.", "id">>)),
                DirectiveArgument("b", NumberValue(1))>>))
    /\ ResolverOf(<<"Query", 1>>)[1].args["a"] = Argument(<<"$parent.", "id">>)
    /\ ResolverOf(<<"Query", 1>>)[1].args["b"] =
          Literal([json |-> "Number", n |-> 1])

\* The query (mutation) name given by the schema blocks of a document, as an
\* Option: that of the last block naming one.
ExplicitQuery(doc) ==
    LET I == {i \in 1..Len(doc) : doc[i].def = "Schema" /\ doc[i].query # <<>>}
    IN  IF I = {} THEN <<>> ELSE doc[CHOOSE i \in I : \A j \in I : j <= i].query

ExplicitMutation(doc) ==
    LET I == {i \in 1..Len(doc) : doc[i].def = "Schema" /\ doc[i].mutation # <<>>}
    IN  IF I = {} THEN <<>> ELSE doc[CHOOSE i \in I : \A j \in I : j <= i].mutation

\* An object or interface type of that name is declared somewhere in doc.
DeclaresRoot(doc, name) ==
    \E i \in 1..Len(doc) :
        /\ doc[i].def = "Type" /\ doc[i].name = name
        /\ doc[i].kind \in {"Object", "Interface"}

\* C20: query_type (mutation_type) of the parsed configuration is the name a
\* schema block gives, even when a type Query (Mutation) is declared;
\* without one it is "Query" ("Mutation") if an object or interface type of
\* that name is declared, and absent otherwise; where the schema block stands
\* among the type definitions makes no difference.
C20_RootTypes ==
    Parsed =>
        /\ outcome[1].config[1].query_type =
              IF ExplicitQuery(history.document) # <<>>
              THEN ExplicitQuery(history.document)
              ELSE IF DeclaresRoot(history.document, "Query") THEN <<"Query">>
              ELSE <<>>
        /\ outcome[1].config[1].mutation_type =
              IF ExplicitMutation(history.document) # <<>>
              THEN ExplicitMutation(history.document)
              ELSE IF DeclaresRoot(history.document, "Mutation") THEN <<"Mutation">>
              ELSE <<>>

\* A schema block naming Root that follows the declarations of Query and Root.
C20_Witness ==
    /\ Parsed
    /\ history.document =
          <<TypeDef("Query", "Object", IdField), TypeDef("Root", "Object", IdField),
            SchemaDef(<<"Root">>, <<>>)>>
    /\ outcome[1].config[1].query_type = <<"Root">>
    /\ outcome[1].config[1].mutation_type = <<>>

\* The names of the object and interface type definitions of a document that
\* do not start with "__".
ModelledTypeNames(doc) ==
    {doc[i].name : i \in {j \in 1..Len(doc) :
                            /\ doc[j].def = "Type"
                            /\ doc[j].kind \in {"Object", "Interface"}
                            /\ doc[j].name \notin IntrospectionNames}}

\* C21: the keys of the parsed type map are exactly the names of the object
\* and interface definitions whose name does not start with "__"; enum,
\* scalar, union, input-object and directive definitions and "__" types are
\* never keys.
C21_TypeMapKeys ==
    Parsed => DOMAIN outcome[1].config[1].types = ModelledTypeNames(history.document)

\* An object type next to a "__" object type: only the former is a key.
C21_Witness ==
    /\ Parsed
    /\ history.document =
          <<TypeDef("__Schema", "Object", IdField), TypeDef("Root", "Object", IdField)>>
    /\ DOMAIN outcome[1].config[1].types = {"Root"}

----------------------------------------------------------------------------
(* Further claims about the builder                                        *)

\* The single text made of the fragments in submission order.
RECURSIVE InOrder(_)
InOrder(parts) ==
    IF parts = <<>> THEN <<>>
    ELSE InOrder(SubSeq(parts, 1, Len(parts) - 1)) \o parts[Len(parts)]

\* The builder at hand with its fragments replaced by that single text.
SingleTextBuilder == [builder[1] EXCEPT !.sdl_parts = <<InOrder(@)>>]

\* C22: validate() and build() on a builder given fragments f1..fn end as
\* they end on the same builder given the one text f1 f2 ... fn: the same
\* error, the same validated configuration, the same server; a field of one
\* fragment may name a type declared in another, earlier or later.
C22_FragmentsAsOneText ==
    (Called /\ builder[1].sdl_parts # <<>>) =>
        /\ outcome[1].op = "validate" =>
              \E r \in {validate(SingleTextBuilder)} :
                  /\ outcome[1].error = r.error
                  /\ outcome[1].ran = r.ran
                  /\ validated = r.value
        /\ outcome[1].op = "build" =>
              \E compiled \in BOOLEAN :
                  \E r \in {build(SingleTextBuilder, compiled)} :
                      /\ outcome[1].error = r.error
                      /\ outcome[1].ran = r.ran
                      /\ server = r.value

\* Query.users names User, which the second fragment declares: the detector
\* sees User.posts below the list.
C22_Witness ==
    /\ Called
    /\ outcome[1].op = "validate"
    /\ builder[1].sdl_parts = <<FragQuery, FragUser>>
    /\ ~history.skip_called
    /\ FailedWith("N1Detection")
    /\ outcome[1].error[1].errors[1].parent_type = "User"

----------------------------------------------------------------------------
(* Further claims about the detector                                       *)

\* The types of the traverse calls in progress that have passed the guard.
EnteredTypes(st) == {st[k].type_name : k \in {j \in 1..Len(st) : st[j].i >= 1}}

\* C23: while traverse calls are in progress the visited set is exactly the
\* set of types on the current path; no type is on the path twice; and when
\* traverse returns from a type of the configuration the visited set is back
\* at the value it had when that call began (the types of the calls still in
\* progress), so the type can be entered again along another path.
C23_VisitedIsCurrentPath ==
    /\ []((pc = "traverse" /\ stack # <<>>) =>
            /\ visited = EnteredTypes(stack)
            /\ \A j, k \in 1..Len(stack) :
                  (stack[j].i >= 1 /\ stack[k].i >= 1
                   /\ stack[j].type_name = stack[k].type_name) => j = k)
    /\ [][(pc = "traverse" /\ stack # <<>> /\ Top.i >= 1
           /\ Len(stack') < Len(stack)) =>
              /\ visited' = EnteredTypes(stack')
              /\ visited' = visited \ {Top.type_name}
              /\ Top.type_name \in visited]_vars

\* User is entered a second time, along Query.b, after the traversal along
\* Query.a has reported a field of User and left it.
C23_Witness ==
    /\ pc = "traverse"
    /\ Len(stack) = 2
    /\ stack[2].type_name = "User"
    /\ stack[2].i >= 1
    /\ stack[2].path = <<"Query", "b">>
    /\ visited = {"Query", "User"}
    /\ \E e \in 1..Len(errors) :
          errors[e].parent_type = "User" /\ errors[e].path[2] = "a"

\* The shapes a field of inner type n can have.
ShapesOf(n) ==
    {Named(n), NonNull(Named(n)), List(Named(n)), NonNull(List(NonNull(Named(n))))}

\* cfg with the type of field tf replaced.
Reshaped(cfg, tf, ft) ==
    [cfg EXCEPT !.types[tf[1]].fields[tf[2]].field_type = ft]

\* The paths at which the list es reports field tf.
ReportedPaths(es, cfg, tf) == {es[k].path : k \in EntriesFor(es, cfg, tf)}

\* C24: the paths at which a resolver-backed field is reported are the same
\* whatever the field's own type shape (list or not) is, and a resolver-backed
\* field of the query root type is never reported, list-shaped and unbatched
\* or not.
C24_OwnShapeIrrelevant ==
    Done =>
        \A tf \in DeclaredFields(config) :
            ResolverBacked(config, tf) =>
                /\ \A ft \in ShapesOf(inner_type_name(
                                 FieldsOf(config, tf[1])[tf[2]].field_type)[1]) :
                      ReportedPaths(detect(Reshaped(config, tf, ft), registry).errors,
                                    config, tf)
                          = ReportedPaths(Returned, config, tf)
                /\ (config.query_type # <<>> /\ tf[1] = config.query_type[1])
                      => ~Reported(Returned, config, tf)

\* detect returned Ok for a root type with a list-shaped unbatched resolver
\* field, and returned an error for a field below it that is not list-shaped.
C24_Witness ==
    /\ Done
    /\ config.query_type = <<"Query">>
    /\ \E tf \in DeclaredFields(config) :
          /\ tf[1] = "Query"
          /\ Unbatched(config, registry, tf)
          /\ ListShaped(FieldsOf(config, tf[1])[tf[2]].field_type)
          /\ ~Reported(Returned, config, tf)
    /\ \E tf \in DeclaredFields(config) :
          /\ tf[1] # "Query"
          /\ ~ListShaped(FieldsOf(config, tf[1])[tf[2]].field_type)
          /\ Reported(Returned, config, tf)

\* Is there a chain of fields named path[i], ..., path[Len(path)] that starts
\* at type t, follows inner type names, and ends at a resolver-backed field
\* declared by type parent?
RECURSIVE Follows(_, _, _, _, _)
Follows(cfg, t, path, i, parent) ==
    /\ HasType(cfg, t)
    /\ \E k \in 1..Len(FieldsOf(cfg, t)) :
          /\ FieldsOf(cfg, t)[k].name = path[i]
          /\ IF i = Len(path)
             THEN t = parent /\ FieldsOf(cfg, t)[k].resolver # <<>>
             ELSE /\ inner_type_name(FieldsOf(cfg, t)[k].field_type) # <<>>
                  /\ Follows(cfg, inner_type_name(FieldsOf(cfg, t)[k].field_type)[1],
                             path, i + 1, parent)

\* C25: every N1Error detect returns has a path of at least three elements
\* that starts with the query root type name and continues with the names of
\* the fields followed from the root type; its last element is field_name,
\* and parent_type is the type that declares field_name as a resolver-backed
\* field.
C25_ErrorShape ==
    Done =>
        \A k \in 1..Len(Returned) :
            /\ Len(Returned[k].path) >= 3
            /\ config.query_type # <<>>
            /\ Returned[k].path[1] = config.query_type[1]
            /\ Returned[k].path[Len(Returned[k].path)] = Returned[k].field_name
            /\ Follows(config, config.query_type[1], Returned[k].path, 2,
                       Returned[k].parent_type)

\* An error three fields below the root.
C25_Witness ==
    /\ Done
    /\ \E k \in 1..Len(Returned) :
          /\ Len(Returned[k].path) = 4
          /\ Returned[k].parent_type = "Post"

----------------------------------------------------------------------------
(* Claims about request-time resolution                                    *)

\* The requests that resolved a field.
Resolved == {i \in 1..Len(requests) : requests[i].op = "execute" /\ requests[i].done}

\* The key a parent value yields for a batch key field.
ExpectedKey(parent, key_field) ==
    IF parent.v = "Object" /\ key_field \in DOMAIN parent.fields
    THEN [json |-> "Number", n |-> parent.fields[key_field].n]
    ELSE [json |-> "Null"]

\* C26: a resolved Trait field with a batch key consults the batch namespace
\* only: registered there, its handler's load is called with the parent's
\* value of the batch key field as key (null when the parent is no object or
\* lacks the field); not registered there, it fails with NotFound and calls
\* nothing, a plain resolver of that name notwithstanding.  Without a batch
\* key it consults the plain namespace only, a batch resolver of that name
\* notwithstanding.
C26_NamespaceByBatchKey ==
    \A i \in Resolved :
        requests[i].resolver[1].kind = "Trait" =>
            IF requests[i].resolver[1].batch_key # <<>>
            THEN IF requests[i].name \in DOMAIN server[1].registry.batch_resolvers
                 THEN /\ requests[i].result[1].ok
                      /\ Len(requests[i].calls) = 1
                      /\ requests[i].calls[1].call = "load"
                      /\ requests[i].calls[1].handle
                            = server[1].registry.batch_resolvers[requests[i].name]
                      /\ requests[i].calls[1].keys
                            = <<ExpectedKey(requests[i].parent,
                                            requests[i].resolver[1].batch_key[1])>>
                 ELSE /\ ~requests[i].result[1].ok
                      /\ requests[i].result[1].error = <<NotFound(requests[i].name)>>
                      /\ requests[i].calls = <<>>
            ELSE IF requests[i].name \in DOMAIN server[1].registry.resolvers
                 THEN /\ requests[i].result[1].ok
                      /\ Len(requests[i].calls) = 1
                      /\ requests[i].calls[1].call = "resolve"
                      /\ requests[i].calls[1].handle
                            = server[1].registry.resolvers[requests[i].name]
                 ELSE /\ ~requests[i].result[1].ok
                      /\ requests[i].result[1].error = <<NotFound(requests[i].name)>>
                      /\ requests[i].calls = <<>>

\* With the name registered in both namespaces, a batched field of a parent
\* with id 2 was loaded by the batch handler with the key 2.
C26_Witness ==
    /\ Built
    /\ "getPosts" \in DOMAIN server[1].registry.resolvers
    /\ "getPosts" \in DOMAIN server[1].registry.batch_resolvers
    /\ \E i \in Resolved :
          /\ requests[i].resolver[1].kind = "Trait"
          /\ requests[i].resolver[1].batch_key = <<"id">>
          /\ requests[i].parent = GqlObject([id |-> GqlNumber(2)])
          /\ requests[i].calls[1].keys = <<[json |-> "Number", n |-> 2]>>
          /\ requests[i].calls[1].handle # server[1].registry.resolvers["getPosts"]

\* C27: every resolution of a batched field calls load at most once, exactly
\* once when the batch resolver is registered, with exactly one key, that of
\* its own parent; the keys of other parents are never added, whatever
\* batch_delay and max_batch_size are.
C27_OneKeyPerLoad ==
    \A i \in Resolved :
        (requests[i].resolver[1].kind = "Trait"
         /\ requests[i].resolver[1].batch_key # <<>>) =>
            /\ Len(requests[i].calls) <= 1
            /\ requests[i].name \in DOMAIN server[1].registry.batch_resolvers
                  => Len(requests[i].calls) = 1
            /\ \A c \in 1..Len(requests[i].calls) :
                  /\ requests[i].calls[c].call = "load"
                  /\ Len(requests[i].calls[c].keys) = 1
                  /\ requests[i].calls[c].keys[1]
                        = ExpectedKey(requests[i].parent,
                                      requests[i].resolver[1].batch_key[1])

\* Two sibling parents were resolved on a server with both tunables set:
\* two loads of one key each.
C27_Witness ==
    /\ Built
    /\ server[1].batch_delay # DefaultBatchDelayMs
    /\ server[1].max_batch_size # DefaultMaxBatchSize
    /\ Resolved = {1, 2}
    /\ requests[1].parent = GqlObject([id |-> GqlNumber(1)])
    /\ requests[2].parent = GqlObject([id |-> GqlNumber(2)])
    /\ requests[1].field_name = requests[2].field_name
    /\ requests[1].calls # <<>> /\ requests[1].calls[1].call = "load"
    /\ requests[2].calls # <<>> /\ requests[2].calls[1].call = "load"
    /\ requests[1].calls[1].keys # requests[2].calls[1].keys

\* C28 (as stated): the context of every handler invocation carries the
\* field's name, the parent value, and as path the chain from the query root
\* down to the field.
C28_AsStated ==
    \A i \in Resolved :
        \A c \in 1..Len(requests[i].calls) :
            /\ requests[i].calls[c].ctx.field_name = requests[i].field_name
            /\ requests[i].calls[c].ctx.parent_value = <<requests[i].parent>>
            /\ requests[i].calls[c].ctx.path = requests[i].route

\* What the context does carry: the name, the parent value, and the pair of
\* the declaring type and the field name.
ContextAsBuilt ==
    \A i \in Resolved :
        \A c \in 1..Len(requests[i].calls) :
            /\ requests[i].calls[c].ctx.field_name = requests[i].field_name
            /\ requests[i].calls[c].ctx.parent_value = <<requests[i].parent>>
            /\ requests[i].calls[c].ctx.path
                  = <<requests[i].parent_type, requests[i].field_name>>

\* User.posts resolved below Query.users with the path [User, posts].
ShortPath ==
    \E i \in Resolved :
        /\ requests[i].route = <<"Query", "users", "posts">>
        /\ requests[i].calls # <<>>
        /\ requests[i].calls[1].ctx.path = <<"User", "posts">>

\* The types reachable from the query root through fields whose inner type
\* is a key of the type map.
ReachableTypes(cfg) == {r[1] : r \in Reach(cfg)}

\* A traverse call is inside the loop over the fields of its type.
InLoop == IF pc = "traverse" /\ stack # <<>> THEN Top.i >= 1 ELSE FALSE

\* The loop of the innermost traverse call is at field k of type t.
AtField(t, k) == IF InLoop THEN Top.type_name = t /\ Top.i = k ELSE FALSE

\* detect is about to start, and t is a reachable type with a k-th field.
ToExamine(t, k) ==
    IF pc = "start" /\ t \in ReachableTypes(config)
    THEN k <= Len(FieldsOf(config, t)) ELSE FALSE

\* C29: detect runs the field loop only for types reachable from the query
\* root through fields whose inner type is a key of the type map, and for
\* every field of every such type; the errors name such types only; without
\* a query root no traverse call is made and the result is Ok.  Types
\* reachable from the mutation root only, types behind a field whose inner
\* type is not in the map, and unreachable types are never examined.
C29_ExaminesReachableOnly ==
    /\ [](InLoop => Top.type_name \in ReachableTypes(config))
    /\ [](Done => /\ \A k \in 1..Len(Returned) :
                        Returned[k].parent_type \in ReachableTypes(config)
                  /\ config.query_type = <<>> => result[1].ok)
    /\ [](config.query_type = <<>> => stack = <<>> /\ visited = {})
    /\ \A t \in TypeNames : \A k \in 1..2 :
          [](ToExamine(t, k) => <>AtField(t, k))

\* detect returned Ok although the mutation root Post, which the query root
\* does not reach, has an unbatched resolver field, and the query root has a
\* list field whose inner type is not in the type map.
C29_Witness ==
    /\ Done
    /\ result[1].ok
    /\ config.query_type = <<"Query">>
    /\ config.mutation_type = <<"Post">>
    /\ "Post" \notin ReachableTypes(config)
    /\ \E tf \in DeclaredFields(config) :
          tf[1] = "Post" /\ Unbatched(config, registry, tf)
    /\ \E tf \in DeclaredFields(config) :
          /\ tf[1] = "Query"
          /\ ListShaped(FieldsOf(config, tf[1])[tf[2]].field_type)
          /\ ~HasType(config, inner_type_name(
                                  FieldsOf(config, tf[1])[tf[2]].field_type)[1])

----------------------------------------------------------------------------
(* Claims about @batchKey next to @call                                    *)

\* The directives the fields of the parsed configuration were written with.
WrittenWith(tf) == SourceTypeDef(JoinedSdl, tf[1]).fields[tf[2]].directives

\* Some chain from the query root reaches the field below a list.
InListContext(cfg, tf) ==
    \E v \in Visits(cfg) : v.parent_type = tf[1] /\ v.index = tf[2] /\ v.in_list

\* The violations validate() returned (none when it did not fail on them).
ReportedByValidate ==
    IF FailedWith("N1Detection") THEN outcome[1].error[1].errors ELSE <<>>

\* C30: a field written with @call and @batchKey is parsed as Call, is not
\* batched, and, when detection runs and the field is in list context, is
\* reported exactly when no batch resolver is registered under its
\* trait_name; a field written with @batchKey alone has no resolver and is
\* never reported.
C30_BatchKeyNeedsResolver ==
    (Called /\ ParsedOk) =>
        \A tf \in DeclaredFields(ParsedConfig) :
            /\ (Present(WrittenWith(tf), "call") /\ Present(WrittenWith(tf), "batchKey"))
                  => /\ ResolverBacked(ParsedConfig, tf)
                     /\ FieldsOf(ParsedConfig, tf[1])[tf[2]].resolver[1].kind = "Call"
                     /\ ~is_batched(FieldsOf(ParsedConfig, tf[1])[tf[2]].resolver[1])
                     /\ (~history.skip_called /\ InListContext(ParsedConfig, tf))
                           => (Reported(ReportedByValidate, ParsedConfig, tf)
                               <=> FieldsOf(ParsedConfig, tf[1])[tf[2]].resolver[1].trait_name
                                      \notin DOMAIN builder[1].registry.batch_resolvers)
            /\ (/\ Present(WrittenWith(tf), "batchKey")
                /\ ~Present(WrittenWith(tf), "call")
                /\ ~Present(WrittenWith(tf), "resolver"))
                  => /\ ~ResolverBacked(ParsedConfig, tf)
                     /\ ~Reported(ReportedByValidate, ParsedConfig, tf)

\* validate() reported User.posts, written with @call and @batchKey, below
\* the list Query.users.
C30_Witness ==
    /\ Called
    /\ outcome[1].op = "validate"
    /\ ~history.skip_called
    /\ builder[1].sdl_parts = <<FragQuery, FragUserCallKeyed>>
    /\ FailedWith("N1Detection")
    /\ outcome[1].error[1].errors[1].field_name = "posts"

====
